---------------------------- MODULE Spec2Model ----------------------------
(***************************************************************************)
(* A model of the MPV subtitle server (src/server/main.py): the session    *)
(* registry, the per-session subtitle cursor and its delta protocol, the   *)
(* fan-out to WebSocket subscribers and the two background tasks.          *)
(*                                                                         *)
(* The server runs on one asyncio event loop.  A coroutine runs without    *)
(* interruption from one await to the next, so every task of the model     *)
(* carries a flag `run`: it is TRUE while the task is inside such a        *)
(* segment, and no other task may take a step until the running task       *)
(* reaches an await (a send, a close, a sleep, a receive) and clears it.   *)
(* A send hands its message to the connection when it is called; the       *)
(* coroutine then waits, and other tasks may run before it resumes.        *)
(***************************************************************************)
EXTENDS Integers, Sequences, FiniteSets, TLC

(***************************************************************************)
(* Bounds of the model.                                                    *)
(***************************************************************************)
\* session identifiers are 1..MaxSessions, handed out once each
MaxSessions == 2
\* subtitle start times and playback positions range over 0..MaxStart
MaxStart == 1
\* a subtitle file holds at most MaxLen blocks
MaxLen == 2
\* the clock runs over 0..MaxTime (seconds)
MaxTime == 3

(***************************************************************************)
(* Program constants (src/server/config.py).  The two timeouts are read    *)
(* from the environment (int(os.getenv(...))); the model runs the server   *)
(* with SESSION_TIMEOUT_SECONDS=2 and INACTIVITY_SHUTDOWN_SECONDS=1.       *)
(***************************************************************************)
WS_MAX_CLIENTS == 100
SESSION_TIMEOUT_SECONDS == 2
INACTIVITY_SHUTDOWN_SECONDS == 1

\* the WebSocket connections; each is accepted at most once and is handled
\* by the coroutine of the same name
Conns == {"c1", "c2"}
\* the HTTP request handlers that may be in progress at the same time
Http == {"h1", "h2"}
\* session_cleanup_task and inactivity_monitor_task
Sweep == "sweep"
Monitor == "monitor"
Lifespan == "lifespan"
Tasks == Http \cup Conns \cup {Sweep, Monitor, Lifespan}

SessionIds == 1..MaxSessions
TrackNames == {"a", "b"}
Times == 0..MaxStart

(***************************************************************************)
(* Subtitle entries and the SRT parser (src/server/srt_parser.py).         *)
(***************************************************************************)
\* SubtitleEntry
SubtitleEntry == [start_ms : 0..MaxStart, end_ms : 0..(MaxStart + 1), text : {"", "x", "y", "z"}]

\* the text of the i-th block of a file: blocks are told apart by position
BlockText(i) == IF i = 1 THEN "x" ELSE IF i = 2 THEN "y" ELSE "z"

RECURSIVE SeqsUpTo(_, _)
\* all sequences over S of length 0..n
SeqsUpTo(S, n) ==
    IF n = 0 THEN {<<>>}
    ELSE LET shorter == SeqsUpTo(S, n - 1)
         IN  shorter \cup {Append(q, x) : q \in {r \in shorter : Len(r) = n - 1}, x \in S}

\* a well-formed file whose blocks are in the order of their start times: every
\* block has start_ms < end_ms and a text
GoodRaws ==
    {[i \in 1..Len(q) |-> [start_ms |-> q[i], end_ms |-> MaxStart + 1, text |-> BlockText(i)]] :
        q \in {r \in SeqsUpTo(0..MaxStart, MaxLen) \ {<<>>} :
                \A i \in 1..(Len(r) - 1) : r[i] <= r[i + 1]}}

\* files the parser rejects: no content, or only blocks that fail validation
BadRaws ==
    {<<>>, <<[start_ms |-> 1, end_ms |-> 1, text |-> "x"]>>}

Raws == GoodRaws \cup BadRaws

\* the longest file with distinct start times 0, 1, ...
FullRaw ==
    [i \in 1..(IF MaxLen <= MaxStart + 1 THEN MaxLen ELSE MaxStart + 1) |->
        [start_ms |-> i - 1, end_ms |-> MaxStart + 1, text |-> BlockText(i)]]

RECURSIVE InsertByStartBefore(_, _)
\* an insertion that puts e before the entries that start at the same time
InsertByStartBefore(q, e) ==
    IF q = <<>> THEN <<e>>
    ELSE IF q[Len(q)].start_ms < e.start_ms THEN Append(q, e)
    ELSE Append(InsertByStartBefore(SubSeq(q, 1, Len(q) - 1), e), q[Len(q)])

RECURSIVE InsertByStart(_, _)
\* e placed after every entry of the sorted sequence q that does not start later
InsertByStart(q, e) ==
    IF q = <<>> THEN <<e>>
    ELSE IF q[Len(q)].start_ms <= e.start_ms THEN Append(q, e)
    ELSE Append(InsertByStart(SubSeq(q, 1, Len(q) - 1), e), q[Len(q)])

RECURSIVE SortByStart(_)
\* entries.sort(key=lambda e: e.start_ms): a stable sort
SortByStart(q) ==
    IF q = <<>> THEN <<>>
    ELSE InsertByStart(SortByStart(SubSeq(q, 1, Len(q) - 1)), q[Len(q)])

\* the blocks parse_srt keeps: start_ms < end_ms and a non-empty text
ValidBlocks(raw) == SelectSeq(raw, LAMBDA b : b.start_ms < b.end_ms /\ b.text # "")

\* parse_srt: the sorted valid blocks; SRTParseError when there is none
ParseSrt(raw) ==
    IF ValidBlocks(raw) = <<>> THEN [ok |-> FALSE, entries |-> <<>>]
    ELSE [ok |-> TRUE, entries |-> SortByStart(ValidBlocks(raw))]

\* parse_subtitles, the parser session_init calls: the SRT parser
ParseSubtitles(raw) == ParseSrt(raw)

(***************************************************************************)
(* The timeline index and the delta engine.                                *)
(***************************************************************************)
\* the entries that have started strictly before the position
filter_entries_before(entries, current_time_ms) ==
    SelectSeq(entries, LAMBDA entry : entry.start_ms < current_time_ms)

filter_entries_up_to(entries, current_time_ms) ==
    SelectSeq(entries, LAMBDA entry : entry.start_ms <= current_time_ms)

RECURSIVE BisectLeft(_, _, _, _)
\* bisect.bisect_left(a, x, lo, hi): the insertion point before the entries equal to x
BisectLeft(a, x, lo, hi) ==
    IF lo < hi
    THEN LET mid == (lo + hi) \div 2
         IN  IF a[mid + 1] < x THEN BisectLeft(a, x, mid + 1, hi)
             ELSE BisectLeft(a, x, lo, mid)
    ELSE lo

RECURSIVE BisectRight(_, _, _, _)
\* bisect.bisect_right(a, x, lo, hi) on the 0-based list a
BisectRight(a, x, lo, hi) ==
    IF lo < hi
    THEN LET mid == (lo + hi) \div 2
         IN  IF x < a[mid + 1] THEN BisectRight(a, x, lo, mid)
             ELSE BisectRight(a, x, mid + 1, hi)
    ELSE lo

\* find_subtitle_index
find_subtitle_index(entries, time_ms) ==
    LET start_times == [i \in 1..Len(entries) |-> entries[i].start_ms]
    IN  BisectRight(start_times, time_ms, 0, Len(start_times))

\* what a viewer is sent of an entry: {"text": ..., "start_ms": ...}
Line(e) == [text |-> e.text, start_ms |-> e.start_ms]

\* the lines of entries[lo:hi + 1]: a range that takes one entry too many
LinesInclusive(entries, lo, hi) ==
    LET h == IF hi + 1 < Len(entries) THEN hi + 1 ELSE Len(entries)
    IN  [i \in 1..(IF h > lo THEN h - lo ELSE 0) |-> Line(entries[lo + i])]

\* the lines of entries[lo:hi] (0-based, hi exclusive, both clipped as a slice is)
Lines(entries, lo, hi) ==
    LET h == IF hi < Len(entries) THEN hi ELSE Len(entries)
    IN  [i \in 1..(IF h > lo THEN h - lo ELSE 0) |-> Line(entries[lo + i])]

\* a delta engine that, moving forward, sends every entry up to the new index again
calculate_subtitle_delta_resend(old_index, new_index, entries) ==
    IF new_index = old_index THEN [kind |-> "none", subs |-> <<>>, count |-> 0]
    ELSE IF new_index > old_index
    THEN [kind |-> "add", subs |-> Lines(entries, 0, new_index), count |-> 0]
    ELSE [kind |-> "remove", subs |-> <<>>, count |-> old_index - new_index]

\* a delta engine that, moving backward, retracts one entry too few
calculate_subtitle_delta_short(old_index, new_index, entries) ==
    IF new_index = old_index THEN [kind |-> "none", subs |-> <<>>, count |-> 0]
    ELSE IF new_index > old_index
    THEN [kind |-> "add", subs |-> Lines(entries, old_index, new_index), count |-> 0]
    ELSE [kind |-> "remove", subs |-> <<>>, count |-> old_index - new_index - 1]

\* calculate_subtitle_delta: None, AddSubtitles(subtitles) or RemoveSubtitles(count)
calculate_subtitle_delta(old_index, new_index, entries) ==
    IF new_index = old_index THEN [kind |-> "none", subs |-> <<>>, count |-> 0]
    ELSE IF new_index > old_index
    THEN [kind |-> "add", subs |-> Lines(entries, old_index, new_index), count |-> 0]
    ELSE [kind |-> "remove", subs |-> <<>>, count |-> old_index - new_index]

\* a delta applied to a displayed list: AddSubtitles appends its lines,
\* RemoveSubtitles drops count lines from the tail, None changes nothing
ApplyDelta(shown, delta) ==
    IF delta.kind = "add" THEN shown \o delta.subs
    ELSE IF delta.kind = "remove"
    THEN SubSeq(shown, 1, IF Len(shown) > delta.count THEN Len(shown) - delta.count ELSE 0)
    ELSE shown

(***************************************************************************)
(* Sessions.                                                               *)
(***************************************************************************)
\* Session(session_id): the dataclass defaults, stamped with the time of creation
NewSession(t) ==
    [tracks |-> <<>>, current_track |-> "", current_time_ms |-> 0, current_index |-> 0,
     last_activity |-> t, connected_clients |-> {}]

\* session.subtitle_tracks is a dict: here the sequence of its items, in insertion order
TrackKeys(tracks) == {tracks[i].name : i \in 1..Len(tracks)}

\* session.subtitle_tracks[name]
TrackEntries(tracks, name) ==
    LET i == CHOOSE j \in 1..Len(tracks) : tracks[j].name = name
    IN  tracks[i].entries

\* the dict after tracks[name] = entries (a key keeps its place when set again)
TrackPut(tracks, name, entries) ==
    IF name \in TrackKeys(tracks)
    THEN [i \in 1..Len(tracks) |->
            IF tracks[i].name = name THEN [name |-> name, entries |-> entries] ELSE tracks[i]]
    ELSE Append(tracks, [name |-> name, entries |-> entries])

RECURSIVE ParseTracksAbort(_)
\* a loop that stops at the first file that fails to parse
ParseTracksAbort(items) ==
    IF items = <<>> THEN <<>>
    ELSE LET front == SubSeq(items, 1, Len(items) - 1)
             before == ParseTracksAbort(front)
             last == items[Len(items)]
             parsed == ParseSubtitles(last.raw)
         IN  IF parsed.ok /\ \A i \in 1..Len(front) : ParseSubtitles(front[i].raw).ok
             THEN TrackPut(before, last.name, parsed.entries)
             ELSE before

RECURSIVE ParseTracks(_)
\* the loop of session_init over req.subtitle_tracks.items(): a file that fails
\* to parse is skipped
ParseTracks(items) ==
    IF items = <<>> THEN <<>>
    ELSE LET before == ParseTracks(SubSeq(items, 1, Len(items) - 1))
             last == items[Len(items)]
             parsed == ParseSubtitles(last.raw)
         IN  IF parsed.ok THEN TrackPut(before, last.name, parsed.entries) ELSE before

\* an init request: the items of req.subtitle_tracks, a dict, so its keys differ
RequestsOver(files) ==
    {q \in SeqsUpTo([name : TrackNames, raw : files], Cardinality(TrackNames)) :
        \A i \in 1..Len(q), j \in 1..Len(q) : q[i].name = q[j].name => i = j}

InitRequests == RequestsOver(Raws)

(***************************************************************************)
(* The state of the server.                                                *)
(***************************************************************************)
VARIABLES
    sessions,            \* the keys of app.state.sessions
    sess,                \* the Session object of every identifier (kept after deletion:
                         \* a coroutine that holds the object may still use it)
    nextId,              \* the next identifier create_session_id hands out
    global_clients,      \* app.state.global_clients
    last_session_closed, \* app.state.last_session_closed
    shutdown_event,      \* app.state.shutdown_event is set
    killed,              \* os.kill(os.getpid(), SIGTERM) was called
    now,                 \* time.time()
    conn,                \* every WebSocket: its state and what its viewer shows
    task,                \* every coroutine: where it is and its local variables
    emptied_at,          \* history: when the session map last became empty
    recording,           \* history: whether this run keeps the histories of what was sent
    calc,                \* the last call of a pure function: its arguments and its result
    ws_max_clients       \* config.WS_MAX_CLIENTS, as the server was started with

vars ==
    <<sessions, sess, nextId, global_clients, last_session_closed, shutdown_event,
      killed, now, conn, task, emptied_at, recording, calc, ws_max_clients>>

\* no pure function has been called
NoCall ==
    [fn |-> "none", entries |-> <<>>, time_ms |-> 0, old_index |-> 0, new_index |-> 0,
     index |-> 0, delta |-> [kind |-> "none", subs |-> <<>>, count |-> 0], shown |-> <<>>,
     raw |-> <<>>, ok |-> FALSE, filtered |-> <<>>]

\* the payload a broadcast loop holds while it runs
NoMsg == [kind |-> "none", subs |-> <<>>, count |-> 0, ids |-> {}]

\* a coroutine that is not running: no request in progress, asleep, not yet connected
IdleTask ==
    [pc |-> "idle", run |-> FALSE, op |-> "none", sid |-> 0, todo |-> {}, snap |-> {},
     tried |-> {}, failed |-> {}, cur |-> "none", rest |-> <<>>, msg |-> NoMsg,
     stale |-> <<>>, subscribers |-> {}, res |-> "none",
     out |-> [c \in Conns |-> <<>>], track |-> "", req |-> <<>>, old_index |-> 0]

\* a WebSocket nobody has connected yet
NewConn ==
    [st |-> "new", role |-> "none", sid |-> 0, shown |-> <<>>, slist |-> {},
     notified |-> FALSE, phase |-> "none"]

\* lifespan, startup: empty registry, both background tasks asleep
Startup ==
    /\ sessions = {}
    /\ sess = [s \in SessionIds |-> NewSession(0)]
    /\ nextId = 1
    /\ global_clients = {}
    /\ last_session_closed = 0
    /\ shutdown_event = FALSE
    /\ killed = FALSE
    /\ now = 0
    /\ conn = [c \in Conns |-> NewConn]
    /\ task = [t \in Tasks |-> IdleTask]
    /\ emptied_at = 0

Init ==
    Startup /\ recording = FALSE /\ calc = NoCall /\ ws_max_clients = WS_MAX_CLIENTS

\* the same start, in a run that keeps the histories
RecordedInit ==
    Startup /\ recording = TRUE /\ calc = NoCall /\ ws_max_clients = WS_MAX_CLIENTS

\* no coroutine is in the middle of a segment: the event loop may pick any ready one
Quiet == \A u \in Tasks : ~task[u].run

\* the coroutine t may take its next step
MayResume(t) == task[t].run \/ Quiet

\* a new coroutine (a request, a connection, a wake-up) may start in slot t
MayStart(t) == Quiet /\ task[t].pc = "idle"

(***************************************************************************)
(* Messages and what a viewer makes of them.                               *)
(***************************************************************************)
\* the viewer's side of the protocol: subtitles_init replaces the list, subtitle_add
\* appends one line, subtitle_remove drops count lines from the tail.  `phase` is
\* history: "tracks" once the track list has come, "synced" once the first
\* subtitles_init has come after it, "early" when a delta came before that
Phase(ph, type) ==
    IF ~recording THEN ph
    ELSE IF type = "tracks" THEN (IF ph = "none" THEN "tracks" ELSE ph)
    ELSE IF type = "subtitles_init" THEN (IF ph = "tracks" THEN "synced" ELSE ph)
    ELSE IF type \in {"subtitle_add", "subtitle_remove"}
    THEN (IF ph = "synced" THEN ph ELSE "early")
    ELSE ph

ViewerApply(cr, m) ==
    IF m.type = "subtitles_init"
    THEN [cr EXCEPT !.shown = m.lines, !.phase = Phase(@, m.type)]
    ELSE IF m.type = "subtitle_add"
    THEN [cr EXCEPT !.shown = @ \o m.lines, !.phase = Phase(@, m.type)]
    ELSE IF m.type = "subtitle_remove"
    THEN [cr EXCEPT !.shown = SubSeq(@, 1, IF Len(@) > m.count THEN Len(@) - m.count ELSE 0),
                    !.phase = Phase(@, m.type)]
    ELSE IF m.type = "tracks" THEN [cr EXCEPT !.phase = Phase(@, m.type)]
    ELSE IF m.type = "sessions_list" THEN [cr EXCEPT !.slist = m.ids]
    ELSE IF m.type = "session_closed" THEN [cr EXCEPT !.notified = TRUE]
    ELSE cr

\* websocket.send_json succeeds on an open connection whose peer reads
SendOk(c) == conn[c].st = "open"

\* the peer of c has stopped reading: a send on c waits and does not return
Stalls(c) == conn[c].st = "slow"

\* conn after send_json(m) on connection c
Sent(c, m) == IF SendOk(c) THEN [conn EXCEPT ![c] = ViewerApply(@, m)] ELSE conn

\* {c} when send_json on c raises (the connection is gone or closed), {} otherwise
Raised(c) == IF SendOk(c) \/ Stalls(c) THEN {} ELSE {c}

\* send_tracks_for_session: the tracks message (a viewer's list is not touched by it)
TracksMsg(session) ==
    [type |-> "tracks", lines |-> <<>>, count |-> 0, ids |-> {},
     tracks |-> [i \in 1..Len(session.tracks) |-> session.tracks[i].name],
     currentTrack |-> session.current_track]

\* send_initial_subtitles_for_session: subtitles_init with entries[:current_index]
InitMsg(session) ==
    [type |-> "subtitles_init",
     lines |-> IF session.current_track \notin TrackKeys(session.tracks) THEN <<>>
               ELSE Lines(TrackEntries(session.tracks, session.current_track), 0,
                          session.current_index),
     count |-> 0, ids |-> {}]

\* one subtitle_add
AddMsg(line) == [type |-> "subtitle_add", lines |-> <<line>>, count |-> 0, ids |-> {}]

\* subtitle_remove
RemoveMsg(n) == [type |-> "subtitle_remove", lines |-> <<>>, count |-> n, ids |-> {}]

\* the sessions_list message broadcast_sessions_list builds
\* a sessions_list that names no session
SessionsMsgNone(ids) == [type |-> "sessions_list", lines |-> <<>>, count |-> 0, ids |-> {}]

SessionsMsg(ids) == [type |-> "sessions_list", lines |-> <<>>, count |-> 0, ids |-> ids]

\* session_closed
ClosedMsg == [type |-> "session_closed", lines |-> <<>>, count |-> 0, ids |-> {}]

(***************************************************************************)
(* The synchronous state changes of the session operations.                *)
(***************************************************************************)
\* the count session_time_update computes for position time_ms
\* an index that is one past the count
NewIndexNext(session, time_ms) ==
    IF session.current_track \in TrackKeys(session.tracks)
    THEN find_subtitle_index(TrackEntries(session.tracks, session.current_track), time_ms) + 1
    ELSE 0

NewIndex(session, time_ms) ==
    IF session.current_track \in TrackKeys(session.tracks)
    THEN find_subtitle_index(TrackEntries(session.tracks, session.current_track), time_ms)
    ELSE 0

\* an init that replaces the tracks and leaves the cursor where it was
InitStateKeepCursor(session, req, t) ==
    LET tracks == ParseTracks(req)
    IN  [session EXCEPT
            !.tracks = tracks,
            !.current_track = IF tracks # <<>> THEN tracks[1].name ELSE @,
            !.last_activity = t]

\* session_init, up to its first broadcast: the tracks are replaced by the parsed
\* ones, the first of them becomes current, and the cursor is reset
InitState(session, req, t) ==
    LET tracks == ParseTracks(req)
    IN  [session EXCEPT
            !.tracks = tracks,
            !.current_track = IF tracks # <<>> THEN tracks[1].name ELSE @,
            !.current_index = 0,
            !.current_time_ms = 0,
            !.last_activity = t]

\* session_time_update, up to its broadcast
\* a position update that counts as activity only when the visible count changes
TimeStateOnChange(session, time_ms, t) ==
    [session EXCEPT
        !.current_time_ms = time_ms,
        !.last_activity = IF NewIndex(session, time_ms) # session.current_index
                          THEN t ELSE @,
        !.current_index = NewIndex(session, time_ms)]

TimeState(session, time_ms, t) ==
    [session EXCEPT
        !.current_time_ms = time_ms,
        !.last_activity = t,
        !.current_index = NewIndex(session, time_ms)]

\* a selection that switches the track and leaves the cursor where it was
SelectStateKeepIndex(session, track) == [session EXCEPT !.current_track = track]

\* handle_session_track_selection for a track of the session, up to its push
SelectState(session, track) ==
    [session EXCEPT
        !.current_track = track,
        !.current_index =
            find_subtitle_index(TrackEntries(session.tracks, track), session.current_time_ms)]

RECURSIVE SumClients(_)
\* sum(len(s.connected_clients) for s in app.state.sessions.values())
SumClients(ids) ==
    IF ids = {} THEN 0
    ELSE LET s == CHOOSE x \in ids : TRUE
         IN  Cardinality(sess[s].connected_clients) + SumClients(ids \ {s})

RECURSIVE Ascending(_)
\* the identifiers of ids in the order the session map iterates them (insertion order)
Ascending(ids) ==
    IF ids = {} THEN <<>>
    ELSE LET m == CHOOSE x \in ids : \A y \in ids : x <= y
         IN  <<m>> \o Ascending(ids \ {m})

(***************************************************************************)
(* Broadcast loops.  Each loop runs over a snapshot (list(...)) of a        *)
(* subscriber set; `todo` holds the connections still to be served and     *)
(* `failed` the connections whose send raised (the list `disconnected` of  *)
(* the loops that prune; history in the loops that only log).  `snap` (the *)
(* snapshot) and `tried` (the connections a send was called on) are        *)
(* history.                                                                *)
(***************************************************************************)
\* the coroutine's locals on entering a loop over the connections C
\* a loop over every open session connection of the server
EnterLoopAll(tr, label, C) ==
    [tr EXCEPT !.pc = label, !.run = TRUE,
               !.todo = C \cup {c \in Conns : conn[c].st = "open" /\ conn[c].role = "session"},
               !.snap = C, !.tried = {}, !.failed = {}, !.cur = "none", !.rest = <<>>]

EnterLoop(tr, label, C) ==
    [tr EXCEPT !.pc = label, !.run = TRUE, !.todo = C, !.snap = C, !.tried = {},
               !.failed = {}, !.cur = "none", !.rest = <<>>]

\* a loop without the try/except around the send: a send that raises ends the
\* broadcast, and the error reaches the caller
AfterSendAbort(tr, c) ==
    IF SendOk(c)
    THEN [tr EXCEPT !.todo = @ \ {c}, !.tried = @ \cup {c}, !.cur = c, !.run = FALSE]
    ELSE [tr EXCEPT !.tried = @ \cup {c}, !.failed = @ \cup {c}, !.cur = c, !.pc = "ret",
                    !.run = FALSE, !.res = "raised"]

\* try: await send(c) / except Exception: log (and note c); then the loop goes on.
\* The await is part of the loop: while the send does not return, the coroutine
\* stays where it is ("blocked")
AfterSend(tr, c) ==
    [tr EXCEPT !.todo = @ \ {c}, !.tried = @ \cup {c}, !.failed = @ \cup Raised(c),
               !.cur = c, !.run = FALSE, !.pc = IF Stalls(c) THEN "blocked" ELSE @]

\* history: the arguments and locals an operation started with
Started(tr, track, req, old_index) ==
    IF recording THEN [tr EXCEPT !.track = track, !.req = req, !.old_index = old_index]
    ELSE tr

\* history: the message m is added to what the coroutine has called send with on c
Noted(tr, c, m) == IF recording THEN [tr EXCEPT !.out[c] = Append(@, m)] ELSE tr

\* where a coroutine goes when broadcast_sessions_list returns
AfterSessionsList(tr) ==
    IF tr.op \in {"delete", "sweep"} THEN "close_tail" ELSE "ret"

\* the coroutine's locals on entering close_session(s) for a session of the map
EnterClose(tr, s) ==
    [EnterLoop(tr, "closing", sess[s].connected_clients) EXCEPT
        !.sid = s, !.subscribers = sess[s].connected_clients]

\* close_session(s) without the membership test: it runs on to the `del`
CloseAbsentRaise(tr, s) ==
    [tr EXCEPT !.pc = "close_del", !.run = TRUE, !.op = "delete", !.sid = s]

\* close_session(s) when s is not in the map: it returns at once
CloseAbsent(tr, s) == [tr EXCEPT !.pc = "ret", !.run = TRUE, !.op = "delete", !.sid = s,
                                 !.res = "ok"]

(***************************************************************************)
(* HTTP handlers.                                                          *)
(***************************************************************************)
\* POST /session/create
CreateStart(t, lim) ==
    /\ MayStart(t)
    /\ nextId <= lim
    /\ sessions' = sessions \cup {nextId}
    /\ sess' = [sess EXCEPT ![nextId] = NewSession(now)]
    /\ nextId' = nextId + 1
    /\ task' = [task EXCEPT ![t] =
            [IdleTask EXCEPT !.pc = "slist_begin", !.run = TRUE, !.op = "create",
                             !.sid = nextId]]
    /\ UNCHANGED <<global_clients, last_session_closed, shutdown_event, killed, now, conn,
                   emptied_at, recording, calc, ws_max_clients>>

\* POST /session/{s}/init
\* an init that does not look whether the session exists
InitStartUpsert(t, s, req) ==
    /\ MayStart(t)
    /\ sess' = [sess EXCEPT ![s] = InitState(@, req, now)]
    /\ task' = [task EXCEPT ![t] =
            [EnterLoop(Started(IdleTask, "", req, 0), "tracks", sess[s].connected_clients)
                EXCEPT !.op = "init", !.sid = s, !.res = "ok"]]
    /\ UNCHANGED <<sessions, nextId, global_clients, last_session_closed, shutdown_event,
                   killed, now, conn, emptied_at, recording, calc, ws_max_clients>>

InitStart(t, s, req) ==
    /\ MayStart(t)
    /\ IF s \notin sessions
       THEN /\ task' = [task EXCEPT ![t] =
                    [Started(IdleTask, "", req, 0) EXCEPT
                        !.pc = "ret", !.run = TRUE, !.op = "init", !.sid = s,
                        !.res = "session_not_found"]]
            /\ UNCHANGED sess
       ELSE /\ sess' = [sess EXCEPT ![s] = InitState(@, req, now)]
            /\ task' = [task EXCEPT ![t] =
                    [EnterLoop(Started(IdleTask, "", req, 0), "tracks",
                               sess[s].connected_clients)
                        EXCEPT !.op = "init", !.sid = s, !.res = "ok"]]
    /\ UNCHANGED <<sessions, nextId, global_clients, last_session_closed, shutdown_event,
                   killed, now, conn, emptied_at, recording, calc, ws_max_clients>>

\* POST /session/{s}/time
TimeStart(t, s, time_ms) ==
    /\ MayStart(t)
    /\ IF s \notin sessions
       THEN /\ task' = [task EXCEPT ![t] =
                    [IdleTask EXCEPT !.pc = "ret", !.run = TRUE, !.op = "time", !.sid = s,
                                     !.res = "session_not_found"]]
            /\ UNCHANGED sess
       ELSE LET old_index == sess[s].current_index
                new_index == NewIndex(sess[s], time_ms)
                after == TimeState(sess[s], time_ms, now)
                base == [Started(IdleTask, "", <<>>, old_index) EXCEPT
                            !.op = "time", !.sid = s, !.res = "ok"]
            IN  /\ sess' = [sess EXCEPT ![s] = after]
                /\ task' = [task EXCEPT ![t] =
                        IF /\ new_index # old_index
                           /\ after.connected_clients # {}
                           /\ after.current_track \in TrackKeys(after.tracks)
                        THEN [EnterLoop(base, "delta", after.connected_clients) EXCEPT
                                !.msg = calculate_subtitle_delta(old_index, new_index,
                                            TrackEntries(after.tracks, after.current_track))
                                        @@ [ids |-> {}]]
                        ELSE [base EXCEPT !.pc = "ret", !.run = TRUE]]
    /\ UNCHANGED <<sessions, nextId, global_clients, last_session_closed, shutdown_event,
                   killed, now, conn, emptied_at, recording, calc, ws_max_clients>>

\* DELETE /session/{s}
DeleteStart(t, s) ==
    /\ MayStart(t)
    /\ task' = [task EXCEPT ![t] =
            IF s \notin sessions THEN CloseAbsent(IdleTask, s)
            ELSE [EnterClose(IdleTask, s) EXCEPT !.op = "delete"]]
    /\ UNCHANGED <<sessions, sess, nextId, global_clients, last_session_closed,
                   shutdown_event, killed, now, conn, emptied_at, recording, calc, ws_max_clients>>

\* the handler returns its response
Return(t) ==
    /\ task[t].pc = "ret"
    /\ MayResume(t)
    /\ task' = [task EXCEPT ![t] = IF t \in Conns THEN [IdleTask EXCEPT !.pc = "recv"]
                                   ELSE IdleTask]
    /\ UNCHANGED <<sessions, sess, nextId, global_clients, last_session_closed,
                   shutdown_event, killed, now, conn, emptied_at, recording, calc, ws_max_clients>>

(***************************************************************************)
(* The steps of the broadcast loops: each sends one message (and then the  *)
(* coroutine waits) or, with the snapshot served, runs on to what follows. *)
(***************************************************************************)
\* broadcast_session_tracks, called by session_init
TracksStep(t) ==
    LET tr == task[t]
    IN  /\ tr.pc = "tracks"
        /\ MayResume(t)
        /\ IF tr.todo # {}
           THEN \E c \in tr.todo :
                    /\ conn' = Sent(c, TracksMsg(sess[tr.sid]))
                    /\ task' = [task EXCEPT ![t] =
                            Noted(AfterSend(tr, c), c, TracksMsg(sess[tr.sid]))]
                    /\ UNCHANGED sess
           ELSE /\ sess' = [sess EXCEPT ![tr.sid].connected_clients = @ \ tr.failed]
                /\ task' = [task EXCEPT ![t] = [tr EXCEPT !.pc = "resync_begin", !.run = TRUE,
                                                          !.cur = "none"]]
                /\ UNCHANGED conn
        /\ UNCHANGED <<sessions, nextId, global_clients, last_session_closed,
                       shutdown_event, killed, now, emptied_at, recording, calc, ws_max_clients>>

\* session_init, `for client in list(session.connected_clients)`: the snapshot of the
\* re-sync push is taken
ResyncBegin(t) ==
    LET tr == task[t]
    IN  /\ tr.pc = "resync_begin"
        /\ MayResume(t)
        /\ task' = [task EXCEPT ![t] =
                EnterLoop(tr, "resync", sess[tr.sid].connected_clients)]
        /\ UNCHANGED <<sessions, sess, nextId, global_clients, last_session_closed,
                       shutdown_event, killed, now, conn, emptied_at, recording, calc, ws_max_clients>>

\* the re-sync push of session_init and handle_session_track_selection: the message
\* is built from the session as it is when the send is called; a failure is logged
ResyncStep(t) ==
    LET tr == task[t]
    IN  /\ tr.pc = "resync"
        /\ MayResume(t)
        /\ IF tr.todo # {}
           THEN \E c \in tr.todo :
                    /\ conn' = Sent(c, InitMsg(sess[tr.sid]))
                    /\ task' = [task EXCEPT ![t] =
                            Noted(AfterSend(tr, c), c, InitMsg(sess[tr.sid]))]
           ELSE /\ task' = [task EXCEPT ![t] =
                        [tr EXCEPT !.pc = IF tr.op = "init" THEN "slist_begin" ELSE "ret",
                                   !.run = TRUE, !.cur = "none"]]
                /\ UNCHANGED conn
        /\ UNCHANGED <<sessions, sess, nextId, global_clients, last_session_closed,
                       shutdown_event, killed, now, emptied_at, recording, calc, ws_max_clients>>

\* broadcast_sessions_list: nothing to do without global clients; otherwise the
\* message is built once, from the session map as it is now
SessionsListBegin(t) ==
    LET tr == task[t]
    IN  /\ tr.pc = "slist_begin"
        /\ MayResume(t)
        /\ task' = [task EXCEPT ![t] =
                IF global_clients = {}
                THEN [tr EXCEPT !.pc = AfterSessionsList(tr), !.run = TRUE]
                ELSE [EnterLoop(tr, "slist", global_clients) EXCEPT
                        !.msg = [NoMsg EXCEPT !.kind = "slist", !.ids = sessions]]]
        /\ UNCHANGED <<sessions, sess, nextId, global_clients, last_session_closed,
                       shutdown_event, killed, now, conn, emptied_at, recording, calc, ws_max_clients>>

\* broadcast_sessions_list: the loop and the pruning of the failed connections
SessionsListStep(t) ==
    LET tr == task[t]
    IN  /\ tr.pc = "slist"
        /\ MayResume(t)
        /\ IF tr.todo # {}
           THEN \E c \in tr.todo :
                    /\ conn' = Sent(c, SessionsMsg(tr.msg.ids))
                    /\ task' = [task EXCEPT ![t] =
                            Noted(AfterSend(tr, c), c, SessionsMsg(tr.msg.ids))]
                    /\ UNCHANGED global_clients
           ELSE /\ global_clients' = global_clients \ tr.failed
                /\ task' = [task EXCEPT ![t] =
                        [tr EXCEPT !.pc = AfterSessionsList(tr), !.run = TRUE,
                                   !.cur = "none"]]
                /\ UNCHANGED conn
        /\ UNCHANGED <<sessions, sess, nextId, last_session_closed, shutdown_event, killed,
                       now, emptied_at, recording, calc, ws_max_clients>>

\* a loop that sends each client the first new line only
AfterAddOnce(tr, c, rest) == [AfterSend(tr, c) EXCEPT !.rest = <<>>]

\* the locals of broadcast_subtitle_delta_for_session after one send of AddSubtitles
\* to c: the messages still to come for c are `rest`; a failure ends them
AfterAdd(tr, c, rest) ==
    [AfterSend(tr, c) EXCEPT !.rest = IF SendOk(c) THEN rest ELSE <<>>]

\* broadcast_subtitle_delta_for_session: one subtitle_add per line to each client in
\* turn, or one subtitle_remove to each; then the failed connections are pruned
DeltaStep(t) ==
    LET tr == task[t]
    IN  /\ tr.pc = "delta"
        /\ MayResume(t)
        /\ IF tr.rest # <<>>
           THEN /\ conn' = Sent(tr.cur, AddMsg(Head(tr.rest)))
                /\ task' = [task EXCEPT ![t] =
                        Noted(AfterAdd(tr, tr.cur, Tail(tr.rest)), tr.cur,
                              AddMsg(Head(tr.rest)))]
                /\ UNCHANGED sess
           ELSE IF tr.todo # {}
           THEN \E c \in tr.todo :
                    /\ conn' = IF tr.msg.kind = "add"
                               THEN Sent(c, AddMsg(Head(tr.msg.subs)))
                               ELSE Sent(c, RemoveMsg(tr.msg.count))
                    /\ task' = [task EXCEPT ![t] =
                            IF tr.msg.kind = "add"
                            THEN Noted(AfterAdd(tr, c, Tail(tr.msg.subs)), c,
                                       AddMsg(Head(tr.msg.subs)))
                            ELSE Noted(AfterSend(tr, c), c, RemoveMsg(tr.msg.count))]
                    /\ UNCHANGED sess
           ELSE /\ sess' = [sess EXCEPT ![tr.sid].connected_clients = @ \ tr.failed]
                /\ task' = [task EXCEPT ![t] = [tr EXCEPT !.pc = "ret", !.run = TRUE,
                                                          !.cur = "none"]]
                /\ UNCHANGED conn
        /\ UNCHANGED <<sessions, nextId, global_clients, last_session_closed,
                       shutdown_event, killed, now, emptied_at, recording, calc, ws_max_clients>>

(***************************************************************************)
(* close_session.                                                          *)
(***************************************************************************)
\* the loop over the session's clients: send session_closed; when the send raises,
\* the error is logged and the loop goes on to the next client
ClosingStep(t) ==
    LET tr == task[t]
    IN  /\ tr.pc = "closing"
        /\ MayResume(t)
        /\ IF tr.todo # {}
           THEN \E c \in tr.todo :
                    /\ conn' = Sent(c, ClosedMsg)
                    /\ task' = [task EXCEPT ![t] =
                            [Noted(AfterSend(tr, c), c, ClosedMsg) EXCEPT
                                !.pc = IF SendOk(c) THEN "closing2"
                                       ELSE IF Stalls(c) THEN "blocked" ELSE "closing"]]
           ELSE /\ task' = [task EXCEPT ![t] = [tr EXCEPT !.pc = "close_del", !.run = TRUE,
                                                          !.cur = "none"]]
                /\ UNCHANGED conn
        /\ UNCHANGED <<sessions, sess, nextId, global_clients, last_session_closed,
                       shutdown_event, killed, now, emptied_at, recording, calc, ws_max_clients>>

\* await client.close(), after the send went through: the viewer is gone
ClosingClose(t) ==
    LET tr == task[t]
    IN  /\ tr.pc = "closing2"
        /\ MayResume(t)
        /\ conn' = [conn EXCEPT ![tr.cur] = [@ EXCEPT !.st = "closed", !.shown = <<>>,
                                                      !.slist = {}, !.phase = "none"]]
        /\ task' = [task EXCEPT ![t] = [tr EXCEPT !.pc = "closing", !.run = FALSE]]
        /\ UNCHANGED <<sessions, sess, nextId, global_clients, last_session_closed,
                       shutdown_event, killed, now, emptied_at, recording, calc, ws_max_clients>>

\* del app.state.sessions[session_id]: a KeyError when another close_session of the
\* same session removed it first; the error ends the request handler with a 500
\* and ends session_cleanup_task for good (it catches CancelledError only)
CloseDel(t) ==
    LET tr == task[t]
    IN  /\ tr.pc = "close_del"
        /\ MayResume(t)
        /\ IF tr.sid \in sessions
           THEN /\ sessions' = sessions \ {tr.sid}
                /\ emptied_at' = IF sessions \ {tr.sid} = {} THEN now ELSE emptied_at
                /\ task' = [task EXCEPT ![t] = [tr EXCEPT !.pc = "slist_begin", !.run = TRUE]]
           ELSE /\ task' = [task EXCEPT ![t] =
                        [tr EXCEPT !.pc = IF t = Sweep THEN "crashed" ELSE "ret",
                                   !.run = (t # Sweep), !.res = "KeyError"]]
                /\ UNCHANGED <<sessions, emptied_at>>
        /\ UNCHANGED <<sess, nextId, global_clients, last_session_closed, shutdown_event,
                       killed, now, conn, recording, calc, ws_max_clients>>

\* the end of close_session: the idle clock starts when no session is left
CloseTail(t) ==
    LET tr == task[t]
    IN  /\ tr.pc = "close_tail"
        /\ MayResume(t)
        /\ last_session_closed' = IF sessions = {} THEN now ELSE last_session_closed
        /\ task' = [task EXCEPT ![t] =
                [tr EXCEPT !.pc = IF tr.op = "sweep" THEN "sweep_next" ELSE "ret",
                           !.run = TRUE, !.res = "ok"]]
        /\ UNCHANGED <<sessions, sess, nextId, global_clients, shutdown_event, killed, now,
                       conn, emptied_at, recording, calc, ws_max_clients>>

(***************************************************************************)
(* The background tasks.                                                   *)
(***************************************************************************)
\* the sessions session_cleanup_task finds stale when it scans the map at time t
StaleSessions(t) ==
    {s \in sessions : t - sess[s].last_activity > SESSION_TIMEOUT_SECONDS}

\* session_cleanup_task wakes from its sleep and scans the map
SweepWake ==
    /\ MayStart(Sweep)
    /\ StaleSessions(now) # {}
    /\ task' = [task EXCEPT ![Sweep] =
            [IdleTask EXCEPT !.pc = "sweep_next", !.run = TRUE, !.op = "sweep",
                             !.stale = Ascending(StaleSessions(now))]]
    /\ UNCHANGED <<sessions, sess, nextId, global_clients, last_session_closed,
                   shutdown_event, killed, now, conn, emptied_at, recording, calc, ws_max_clients>>

\* `for session_id in stale_sessions: await close_session(session_id)`
SweepNext ==
    LET tr == task[Sweep]
    IN  /\ tr.pc = "sweep_next"
        /\ MayResume(Sweep)
        /\ task' = [task EXCEPT ![Sweep] =
                IF tr.stale = <<>> THEN IdleTask
                ELSE IF Head(tr.stale) \notin sessions
                THEN [tr EXCEPT !.stale = Tail(@), !.run = TRUE]
                ELSE [EnterClose(tr, Head(tr.stale)) EXCEPT !.stale = Tail(@)]]
        /\ UNCHANGED <<sessions, sess, nextId, global_clients, last_session_closed,
                       shutdown_event, killed, now, conn, emptied_at, recording, calc, ws_max_clients>>

\* the monitor requests termination without setting the flag
MonitorWakeNoFlag ==
    /\ MayStart(Monitor)
    /\ Cardinality(sessions) = 0
    /\ now - last_session_closed > INACTIVITY_SHUTDOWN_SECONDS
    /\ task' = [task EXCEPT ![Monitor] = [IdleTask EXCEPT !.pc = "grace", !.op = "monitor"]]
    /\ UNCHANGED <<sessions, sess, nextId, global_clients, last_session_closed, killed, now,
                   conn, emptied_at, recording, calc, ws_max_clients, shutdown_event>>

\* inactivity_monitor_task wakes and finds the map empty for longer than the timeout
MonitorWake ==
    /\ MayStart(Monitor)
    /\ Cardinality(sessions) = 0
    /\ now - last_session_closed > INACTIVITY_SHUTDOWN_SECONDS
    /\ shutdown_event' = TRUE
    /\ task' = [task EXCEPT ![Monitor] = [IdleTask EXCEPT !.pc = "grace", !.op = "monitor"]]
    /\ UNCHANGED <<sessions, sess, nextId, global_clients, last_session_closed, killed, now,
                   conn, emptied_at, recording, calc, ws_max_clients>>

\* after the grace period: os.kill(os.getpid(), signal.SIGTERM); return
MonitorKill ==
    /\ task[Monitor].pc = "grace"
    /\ MayResume(Monitor)
    /\ killed' = TRUE
    /\ task' = [task EXCEPT ![Monitor] = [IdleTask EXCEPT !.pc = "ended", !.op = "monitor"]]
    /\ UNCHANGED <<sessions, sess, nextId, global_clients, last_session_closed,
                   shutdown_event, now, conn, emptied_at, recording, calc, ws_max_clients>>

\* a second of wall-clock time passes
Tick ==
    /\ Quiet
    /\ now < MaxTime
    /\ now' = now + 1
    /\ UNCHANGED <<sessions, sess, nextId, global_clients, last_session_closed,
                   shutdown_event, killed, conn, task, emptied_at, recording, calc, ws_max_clients>>

\* a time stamp one second further in the past, as far as the clock's range goes
Back(t) == IF t > 0 THEN t - 1 ELSE 0

\* a second of wall-clock time passes, without an end: once the clock's range is
\* used up the time stamps move into the past instead.  A stamp that has reached 0
\* while now = MaxTime is older than every timeout the code compares with
TickOn ==
    /\ Quiet
    /\ IF now < MaxTime
       THEN /\ now' = now + 1
            /\ UNCHANGED <<sess, last_session_closed, emptied_at>>
       ELSE /\ now' = now
            /\ last_session_closed' = Back(last_session_closed)
            /\ emptied_at' = Back(emptied_at)
            /\ sess' = [s \in SessionIds |->
                            [sess[s] EXCEPT !.last_activity = Back(@)]]
    /\ UNCHANGED <<sessions, nextId, global_clients, shutdown_event, killed, conn, task,
                   recording, calc, ws_max_clients>>

(***************************************************************************)
(* Shutdown: the part of lifespan after its yield.                         *)
(***************************************************************************)
\* the process is told to terminate from outside (the operator stops the server)
Sigterm ==
    /\ Quiet
    /\ ~killed
    /\ task[Lifespan].pc = "idle"
    /\ killed' = TRUE
    /\ UNCHANGED <<sessions, sess, nextId, global_clients, last_session_closed,
                   shutdown_event, now, conn, task, emptied_at, recording, calc,
                   ws_max_clients>>

\* cleanup_task.cancel(); await cleanup_task: the sweep, wherever it waits, gets
\* CancelledError and ends with it, which lifespan catches.  A sweep that has ended
\* with another error hands that error to the await, and lifespan ends with it
TeardownSweep ==
    /\ killed
    /\ task[Lifespan].pc = "idle"
    /\ task' = IF task[Sweep].pc = "crashed"
               THEN [task EXCEPT ![Lifespan] =
                        [IdleTask EXCEPT !.pc = "failed", !.op = "teardown",
                                         !.res = task[Sweep].res]]
               ELSE [task EXCEPT ![Sweep] = [IdleTask EXCEPT !.pc = "cancelled"],
                                 ![Lifespan] =
                        [IdleTask EXCEPT !.pc = "td_monitor", !.op = "teardown"]]
    /\ UNCHANGED <<sessions, sess, nextId, global_clients, last_session_closed,
                   shutdown_event, killed, now, conn, emptied_at, recording, calc,
                   ws_max_clients>>

\* inactivity_task.cancel(); await inactivity_task: a monitor that has returned
\* stays as it is
TeardownMonitor ==
    /\ task[Lifespan].pc = "td_monitor"
    /\ task' = [task EXCEPT
            ![Monitor] = IF @.pc = "ended" THEN @ ELSE [IdleTask EXCEPT !.pc = "cancelled"],
            ![Lifespan] = [@ EXCEPT !.pc = "td_sessions",
                                    !.stale = Ascending(sessions)]]
    /\ UNCHANGED <<sessions, sess, nextId, global_clients, last_session_closed,
                   shutdown_event, killed, now, conn, emptied_at, recording, calc,
                   ws_max_clients>>

\* the connection c after `await client.close()`; an error of close is logged
ClosedByTeardown(c) ==
    [conn EXCEPT ![c] = IF @.st = "open"
                        THEN [@ EXCEPT !.st = "closed", !.shown = <<>>, !.slist = {},
                                       !.phase = "none"]
                        ELSE @]

\* the loop over list(app.state.sessions.values()): every client of the session is
\* closed, then the session's set is cleared.  `tried` is the history of the
\* session connections closed so far
TeardownSessions ==
    LET tr == task[Lifespan]
    IN  /\ tr.pc = "td_sessions"
        /\ IF tr.todo # {}
           THEN \E c \in tr.todo :
                    /\ conn' = ClosedByTeardown(c)
                    /\ task' = [task EXCEPT ![Lifespan] =
                            [tr EXCEPT !.todo = @ \ {c}, !.tried = @ \cup {c}]]
                    /\ UNCHANGED <<sess, global_clients>>
           ELSE IF tr.sid # 0
           THEN /\ sess' = [sess EXCEPT ![tr.sid].connected_clients = {}]
                /\ task' = [task EXCEPT ![Lifespan] = [tr EXCEPT !.sid = 0]]
                /\ UNCHANGED <<conn, global_clients>>
           ELSE IF tr.stale # <<>>
           THEN /\ task' = [task EXCEPT ![Lifespan] =
                        [tr EXCEPT !.sid = Head(tr.stale), !.stale = Tail(@),
                                   !.todo = sess[Head(tr.stale)].connected_clients]]
                /\ UNCHANGED <<sess, conn, global_clients>>
           ELSE /\ task' = [task EXCEPT ![Lifespan] =
                        [tr EXCEPT !.pc = "td_globals", !.todo = global_clients]]
                /\ UNCHANGED <<sess, conn, global_clients>>
        /\ UNCHANGED <<sessions, nextId, last_session_closed, shutdown_event, killed, now,
                       emptied_at, recording, calc, ws_max_clients>>

\* the loop over list(app.state.global_clients), then global_clients.clear().
\* `snap` is the history of the global connections closed so far
TeardownGlobals ==
    LET tr == task[Lifespan]
    IN  /\ tr.pc = "td_globals"
        /\ IF tr.todo # {}
           THEN \E c \in tr.todo :
                    /\ conn' = ClosedByTeardown(c)
                    /\ task' = [task EXCEPT ![Lifespan] =
                            [tr EXCEPT !.todo = @ \ {c}, !.snap = @ \cup {c}]]
                    /\ UNCHANGED global_clients
           ELSE /\ global_clients' = {}
                /\ task' = [task EXCEPT ![Lifespan] = [tr EXCEPT !.pc = "td_done"]]
                /\ UNCHANGED conn
        /\ UNCHANGED <<sessions, sess, nextId, last_session_closed, shutdown_event, killed,
                       now, emptied_at, recording, calc, ws_max_clients>>

(***************************************************************************)
(* WebSocket endpoints.                                                    *)
(***************************************************************************)
\* session_websocket_endpoint, from accept() to the first send: an unknown session
\* or a full server closes the connection; otherwise it joins the subscriber set
\* and is sent the track list
SubscribeStart(c, s) ==
    /\ MayStart(c)
    /\ conn[c].st = "new"
    /\ IF s \notin sessions \/ SumClients(sessions) >= ws_max_clients
       THEN /\ conn' = [conn EXCEPT ![c].st = "closed"]
            /\ task' = [task EXCEPT ![c] = [IdleTask EXCEPT !.pc = "ended"]]
            /\ UNCHANGED sess
       ELSE /\ sess' = [sess EXCEPT ![s].connected_clients = @ \cup {c}]
            /\ conn' = [conn EXCEPT ![c] =
                    ViewerApply([@ EXCEPT !.st = "open", !.role = "session", !.sid = s],
                                TracksMsg(sess[s]))]
            /\ task' = [task EXCEPT ![c] =
                    Noted([IdleTask EXCEPT !.pc = "sub_init", !.op = "subscribe",
                                           !.sid = s, !.cur = c], c, TracksMsg(sess[s]))]
    /\ UNCHANGED <<sessions, nextId, global_clients, last_session_closed, shutdown_event,
                   killed, now, emptied_at, recording, calc, ws_max_clients>>

\* session_websocket_endpoint: send_initial_subtitles_for_session, then the receive
\* loop; when the send raises, the finally clause drops the connection from the set
SubscribeInit(c) ==
    LET tr == task[c]
    IN  /\ tr.pc = "sub_init"
        /\ MayResume(c)
        /\ IF SendOk(c)
           THEN /\ conn' = Sent(c, InitMsg(sess[tr.sid]))
                /\ task' = [task EXCEPT ![c] = [IdleTask EXCEPT !.pc = "recv"]]
                /\ UNCHANGED sess
           ELSE IF Stalls(c)
           THEN /\ task' = [task EXCEPT ![c] = [tr EXCEPT !.pc = "blocked"]]
                /\ UNCHANGED <<sess, conn>>
           ELSE /\ sess' = [sess EXCEPT ![tr.sid].connected_clients = @ \ {c}]
                /\ task' = [task EXCEPT ![c] = [IdleTask EXCEPT !.pc = "ended"]]
                /\ UNCHANGED conn
        /\ UNCHANGED <<sessions, nextId, global_clients, last_session_closed,
                       shutdown_event, killed, now, emptied_at, recording, calc, ws_max_clients>>

\* handle_session_track_selection with a session that is gone or a name that is
\* not among the session's tracks: nothing but a log line, no broadcast
SelectMissingResync(s, track) ==
    [EnterLoop(Started(IdleTask, track, <<>>, 0), "resync",
               IF s \in sessions THEN sess[s].connected_clients ELSE {})
        EXCEPT !.op = "select", !.sid = s, !.res = "ignored"]

SelectMissing(s, track) ==
    [Started(IdleTask, track, <<>>, 0) EXCEPT
        !.pc = "ret", !.run = TRUE, !.op = "select", !.sid = s, !.res = "ignored"]

\* a selectTrack message arrives: handle_session_track_selection
SelectStart(c, track) ==
    LET s == conn[c].sid
    IN  /\ task[c].pc = "recv"
        /\ Quiet
        /\ conn[c].st = "open"
        /\ conn[c].role = "session"
        /\ IF s \in sessions /\ track \in TrackKeys(sess[s].tracks)
           THEN /\ sess' = [sess EXCEPT ![s] = SelectState(@, track)]
                /\ task' = [task EXCEPT ![c] =
                        [EnterLoop(Started(IdleTask, track, <<>>, sess[s].current_index),
                                   "resync", sess[s].connected_clients) EXCEPT
                            !.op = "select", !.sid = s, !.res = "ok"]]
           ELSE /\ task' = [task EXCEPT ![c] = SelectMissing(s, track)]
                /\ UNCHANGED sess
        /\ UNCHANGED <<sessions, nextId, global_clients, last_session_closed,
                       shutdown_event, killed, now, conn, emptied_at, recording, calc, ws_max_clients>>

\* the receive raises on a connection that is gone or was closed: the finally
\* clause of the endpoint drops it from its subscriber set
Disconnect(c) ==
    /\ task[c].pc = "recv"
    /\ Quiet
    /\ conn[c].st \in {"dead", "closed"}
    /\ sess' = IF conn[c].role = "session"
               THEN [sess EXCEPT ![conn[c].sid].connected_clients = @ \ {c}]
               ELSE sess
    /\ global_clients' = IF conn[c].role = "global" THEN global_clients \ {c}
                         ELSE global_clients
    /\ task' = [task EXCEPT ![c] = [IdleTask EXCEPT !.pc = "ended"]]
    /\ UNCHANGED <<sessions, nextId, last_session_closed, shutdown_event, killed, now, conn,
                   emptied_at, recording, calc, ws_max_clients>>

\* websocket_endpoint, from accept() to broadcast_sessions_list
GlobalStart(c) ==
    /\ MayStart(c)
    /\ conn[c].st = "new"
    /\ IF SumClients(sessions) + Cardinality(global_clients) >= ws_max_clients
       THEN /\ conn' = [conn EXCEPT ![c].st = "closed"]
            /\ task' = [task EXCEPT ![c] = [IdleTask EXCEPT !.pc = "ended"]]
            /\ UNCHANGED global_clients
       ELSE /\ global_clients' = global_clients \cup {c}
            /\ conn' = [conn EXCEPT ![c] = [@ EXCEPT !.st = "open", !.role = "global"]]
            /\ task' = [task EXCEPT ![c] =
                    [IdleTask EXCEPT !.pc = "slist_begin", !.run = TRUE, !.op = "gconnect"]]
    /\ UNCHANGED <<sessions, sess, nextId, last_session_closed, shutdown_event, killed, now,
                   emptied_at, recording, calc, ws_max_clients>>

\* the peer of an open connection goes away, and its viewer with it: from now on
\* every send on the connection raises
Break(c) ==
    /\ Quiet
    /\ conn[c].st = "open"
    /\ conn' = [conn EXCEPT ![c] = [@ EXCEPT !.st = "dead", !.shown = <<>>, !.slist = {},
                                             !.phase = "none"]]
    /\ UNCHANGED <<sessions, sess, nextId, global_clients, last_session_closed,
                   shutdown_event, killed, now, task, emptied_at, recording, calc, ws_max_clients>>

\* the peer of an open connection stops reading and its buffers fill up: from now
\* on a send on the connection does not return
Stall(c) ==
    /\ Quiet
    /\ conn[c].st = "open"
    /\ conn' = [conn EXCEPT ![c].st = "slow"]
    /\ UNCHANGED <<sessions, sess, nextId, global_clients, last_session_closed,
                   shutdown_event, killed, now, task, emptied_at, recording, calc, ws_max_clients>>

(***************************************************************************)
(* Specifications.                                                         *)
(***************************************************************************)
\* a step of a coroutine that is past its start
Step(t) ==
    \/ TracksStep(t)
    \/ ResyncBegin(t)
    \/ ResyncStep(t)
    \/ SessionsListBegin(t)
    \/ SessionsListStep(t)
    \/ DeltaStep(t)
    \/ ClosingStep(t)
    \/ ClosingClose(t)
    \/ CloseDel(t)
    \/ CloseTail(t)
    \/ Return(t)

\* the labels at which a coroutine is inside a broadcast loop
LoopLabels == {"tracks", "resync", "slist", "delta", "closing", "closing2", "blocked"}

\* no operation is in progress: every handler is free, waiting for a message or gone
Settled == \A t \in Tasks : task[t].pc \in {"idle", "recv", "ended"}

\* the init requests of the runs with failing sends: no track, or the track "a"
SpecRequests == {<<>>, <<[name |-> "a", raw |-> FullRaw]>>}

\* one session, one request handler at a time beside the connection handlers,
\* connections that break at any moment
Next ==
    \/ \E t \in {"h1"} : CreateStart(t, 1)
    \/ \E t \in {"h1"}, req \in SpecRequests : InitStart(t, 1, req)
    \/ \E t \in {"h1"}, ms \in Times : TimeStart(t, 1, ms)
    \/ \E t \in {"h1"} : DeleteStart(t, 1)
    \/ \E c \in Conns : SubscribeStart(c, 1)
    \/ \E c \in Conns : SubscribeInit(c)
    \/ \E c \in Conns : GlobalStart(c)
    \/ \E c \in Conns : SelectStart(c, "a")
    \/ \E c \in Conns : Disconnect(c)
    \/ \E c \in Conns : Break(c)
    \/ \E t \in Tasks : Step(t)

Spec == Init /\ [][Next]_vars

\* the init requests of the serial runs: any file as track "a", alone or beside the
\* longest file as track "b", in either order
SerialRequests ==
    {q \in InitRequests : \A i \in 1..Len(q) : q[i].name = "b" => q[i].raw = FullRaw}

\* one session on which every operation finishes before the next one starts, and
\* connections that stay up: subscribe, init, updatePosition and selectTrack
SerialNext ==
    \/ \E t \in {"h1"} : Settled /\ CreateStart(t, 1)
    \/ \E t \in {"h1"}, req \in SerialRequests : Settled /\ InitStart(t, 1, req)
    \/ \E t \in {"h1"}, ms \in Times : Settled /\ TimeStart(t, 1, ms)
    \/ \E c \in Conns : Settled /\ SubscribeStart(c, 1)
    \/ \E c \in Conns, track \in TrackNames : Settled /\ SelectStart(c, track)
    \/ \E c \in Conns : SubscribeInit(c)
    \/ \E t \in Tasks : TracksStep(t)
    \/ \E t \in Tasks : ResyncBegin(t)
    \/ \E t \in Tasks : ResyncStep(t)
    \/ \E t \in Tasks : SessionsListBegin(t)
    \/ \E t \in Tasks : DeltaStep(t)
    \/ \E t \in Tasks : Return(t)

SerialSpec == RecordedInit /\ [][SerialNext]_vars

\* no subscriber is between joining its session and its first subtitles_init
NoneJoining == \A c \in Conns : task[c].pc # "sub_init"

\* one session with one viewer, whose requests overlap: a request starts while
\* others wait in a send.  The connection stays up, and the viewer subscribes only
\* while nothing else is in progress
OverlapNext ==
    \/ \E t \in {"h1"} : Settled /\ CreateStart(t, 1)
    \/ \E c \in {"c1"} : Settled /\ SubscribeStart(c, 1)
    \/ \E c \in {"c1"} : SubscribeInit(c)
    \/ \E t \in Http, req \in SpecRequests : NoneJoining /\ InitStart(t, 1, req)
    \/ \E t \in Http, ms \in Times : NoneJoining /\ TimeStart(t, 1, ms)
    \/ \E c \in {"c1"} : NoneJoining /\ SelectStart(c, "a")
    \/ \E t \in Tasks : TracksStep(t)
    \/ \E t \in Tasks : ResyncBegin(t)
    \/ \E t \in Tasks : ResyncStep(t)
    \/ \E t \in Tasks : SessionsListBegin(t)
    \/ \E t \in Tasks : DeltaStep(t)
    \/ \E t \in Tasks : Return(t)

OverlapSpec == Init /\ [][OverlapNext]_vars

\* one session whose viewers subscribe at any moment, also while a position update
\* or an init is in progress, and position updates that start while a subscribe is
\* between its two sends.  The history of what each viewer received is kept
JoinNext ==
    \/ \E t \in {"h1"} : Settled /\ CreateStart(t, 1)
    \/ \E t \in {"h1"}, req \in SpecRequests : InitStart(t, 1, req)
    \/ \E t \in {"h1"}, ms \in Times : TimeStart(t, 1, ms)
    \/ \E c \in Conns : SubscribeStart(c, 1)
    \/ \E c \in Conns : SubscribeInit(c)
    \/ \E t \in Tasks : TracksStep(t)
    \/ \E t \in Tasks : ResyncBegin(t)
    \/ \E t \in Tasks : ResyncStep(t)
    \/ \E t \in Tasks : SessionsListBegin(t)
    \/ \E t \in Tasks : DeltaStep(t)
    \/ \E t \in Tasks : Return(t)

JoinSpec == RecordedInit /\ [][JoinNext]_vars

\* a server started with a subscriber limit as small as the number of connections
\* tried against it
CapacityInit ==
    /\ Startup
    /\ recording = FALSE
    /\ calc = NoCall
    /\ ws_max_clients \in 1..Cardinality(Conns)

\* connections to sessions and to the session list, in any order, against that
\* limit; connections break and their handlers leave
CapacityNext ==
    \/ \E t \in {"h1"} : CreateStart(t, MaxSessions)
    \/ \E c \in Conns, s \in SessionIds : SubscribeStart(c, s)
    \/ \E c \in Conns : SubscribeInit(c)
    \/ \E c \in Conns : GlobalStart(c)
    \/ \E c \in Conns : Break(c)
    \/ \E c \in Conns : Disconnect(c)
    \/ \E t \in Tasks : SessionsListBegin(t)
    \/ \E t \in Tasks : SessionsListStep(t)
    \/ \E t \in Tasks : Return(t)

CapacitySpec == CapacityInit /\ [][CapacityNext]_vars

\* the steps of close_session and of the session-list broadcast
LifeStep(t) ==
    \/ SessionsListBegin(t)
    \/ SessionsListStep(t)
    \/ ClosingStep(t)
    \/ ClosingClose(t)
    \/ CloseDel(t)
    \/ CloseTail(t)
    \/ Return(t)

\* the life of the sessions: they are created, watched by one viewer, deleted by a
\* request or by the sweep as time passes, with a session picker connected; when
\* the process has been told to terminate, nothing more happens
LifeNext ==
    \/ \E t \in {"h1"} : ~killed /\ CreateStart(t, MaxSessions)
    \/ \E t \in {"h1"}, s \in SessionIds : ~killed /\ DeleteStart(t, s)
    \/ \E s \in SessionIds : ~killed /\ SubscribeStart("c1", s)
    \/ ~killed /\ SubscribeInit("c1")
    \/ ~killed /\ GlobalStart("c2")
    \/ \E c \in Conns : ~killed /\ Disconnect(c)
    \/ ~killed /\ Tick
    \/ ~killed /\ SweepWake
    \/ ~killed /\ SweepNext
    \/ ~killed /\ MonitorWake
    \/ MonitorKill
    \/ \E t \in Tasks : ~killed /\ LifeStep(t)

LifeSpec == Init /\ [][LifeNext]_vars

\* sessions are created, moved and deleted by two players while session pickers
\* come and go
CreateNext ==
    \/ \E t \in {"h1"} : CreateStart(t, MaxSessions)
    \/ \E t \in {"h2"} : TimeStart(t, 1, MaxStart)
    \/ \E t \in {"h2"} : DeleteStart(t, 1)
    \/ \E c \in Conns : GlobalStart(c)
    \/ Break("c1")
    \/ Disconnect("c1")
    \/ \E t \in Tasks : SessionsListBegin(t)
    \/ \E t \in Tasks : SessionsListStep(t)
    \/ \E t \in Tasks : ClosingStep(t)
    \/ \E t \in Tasks : CloseDel(t)
    \/ \E t \in Tasks : CloseTail(t)
    \/ \E t \in Tasks : Return(t)

CreateSpec == RecordedInit /\ [][CreateNext]_vars

\* two sessions, each with its own player and its own viewer, operated on at the
\* same time
CrossNext ==
    \/ Settled /\ CreateStart("h1", 2)
    \/ \E req \in SpecRequests : InitStart("h1", 1, req)
    \/ \E ms \in Times : TimeStart("h1", 1, ms)
    \/ InitStart("h2", 2, <<[name |-> "a", raw |-> FullRaw]>>)
    \/ TimeStart("h2", 2, MaxStart)
    \/ SubscribeStart("c1", 1)
    \/ SubscribeStart("c2", 2)
    \/ \E c \in Conns : SubscribeInit(c)
    \/ \E track \in TrackNames : SelectStart("c1", track)
    \/ \E t \in Tasks : TracksStep(t)
    \/ \E t \in Tasks : ResyncBegin(t)
    \/ \E t \in Tasks : ResyncStep(t)
    \/ \E t \in Tasks : SessionsListBegin(t)
    \/ \E t \in Tasks : DeltaStep(t)
    \/ \E t \in Tasks : Return(t)
    \/ Settled /\ now < 1 /\ Tick

CrossSpec == RecordedInit /\ [][CrossNext]_vars

\* requests and connections that name session 1, which is created and deleted, and
\* session 2, which never exists
UnknownNext ==
    \/ CreateStart("h1", 1)
    \/ DeleteStart("h1", 1)
    \/ \E s \in 1..2 : InitStart("h2", s, <<[name |-> "a", raw |-> FullRaw]>>)
    \/ \E s \in 1..2 : TimeStart("h2", s, MaxStart)
    \/ \E c \in Conns, s \in 1..2 : SubscribeStart(c, s)
    \/ \E c \in Conns : SubscribeInit(c)
    \/ \E c \in Conns : SelectStart(c, "a")
    \/ \E c \in Conns : Disconnect(c)
    \/ \E t \in Tasks : TracksStep(t)
    \/ \E t \in Tasks : ResyncBegin(t)
    \/ \E t \in Tasks : ResyncStep(t)
    \/ \E t \in Tasks : SessionsListBegin(t)
    \/ \E t \in Tasks : DeltaStep(t)
    \/ \E t \in Tasks : ClosingStep(t)
    \/ \E t \in Tasks : ClosingClose(t)
    \/ \E t \in Tasks : CloseDel(t)
    \/ \E t \in Tasks : CloseTail(t)
    \/ \E t \in Tasks : Return(t)

UnknownSpec == Init /\ [][UnknownNext]_vars

\* one session over time: its player initialises it and reports positions, viewers
\* join, select tracks and leave, and the clock moves between the operations
ActivityNext ==
    \/ Settled /\ CreateStart("h1", 1)
    \/ \E req \in SpecRequests : Settled /\ InitStart("h1", 1, req)
    \/ \E ms \in Times : Settled /\ TimeStart("h1", 1, ms)
    \/ \E c \in Conns : Settled /\ SubscribeStart(c, 1)
    \/ \E c \in Conns, track \in TrackNames : Settled /\ SelectStart(c, track)
    \/ \E c \in Conns : SubscribeInit(c)
    \/ \E c \in Conns : Break(c)
    \/ \E c \in Conns : Disconnect(c)
    \/ \E t \in Tasks : TracksStep(t)
    \/ \E t \in Tasks : ResyncBegin(t)
    \/ \E t \in Tasks : ResyncStep(t)
    \/ \E t \in Tasks : SessionsListBegin(t)
    \/ \E t \in Tasks : DeltaStep(t)
    \/ \E t \in Tasks : Return(t)
    \/ Settled /\ Tick

ActivitySpec == Init /\ [][ActivityNext]_vars

\* one session with a viewer whose player keeps reporting positions while time
\* passes and the sweep runs
RefreshNext ==
    \/ CreateStart("h1", 1)
    \/ \E ms \in Times : TimeStart("h1", 1, ms)
    \/ SubscribeStart("c1", 1)
    \/ SubscribeInit("c1")
    \/ Disconnect("c1")
    \/ Tick
    \/ SweepWake
    \/ SweepNext
    \/ \E t \in Tasks : ClosingStep(t)
    \/ \E t \in Tasks : ClosingClose(t)
    \/ \E t \in Tasks : CloseDel(t)
    \/ \E t \in Tasks : SessionsListBegin(t)
    \/ \E t \in Tasks : CloseTail(t)
    \/ \E t \in Tasks : Return(t)

RefreshSpec == Init /\ [][RefreshNext]_vars

\* the server left alone for as long as it takes: a session is created, watched by
\* a session picker, deleted or swept, and the clock never stops
IdleNext ==
    \/ \E t \in {"h1"} : ~killed /\ CreateStart(t, 1)
    \/ \E t \in {"h1"} : ~killed /\ DeleteStart(t, 1)
    \/ ~killed /\ GlobalStart("c2")
    \/ ~killed /\ TickOn
    \/ ~killed /\ SweepWake
    \/ ~killed /\ SweepNext
    \/ ~killed /\ MonitorWake
    \/ MonitorKill
    \/ \E t \in Tasks : ~killed /\ LifeStep(t)

\* the event loop always runs some coroutine that is ready, time passes, and the
\* monitor's timers fire again and again (every INACTIVITY_CHECK_INTERVAL, and the
\* grace period)
IdleSpec ==
    /\ Init
    /\ [][IdleNext]_vars
    /\ WF_vars(~killed /\ (SweepNext \/ \E t \in Tasks : LifeStep(t)))
    /\ SF_vars(~killed /\ TickOn)
    /\ SF_vars(~killed /\ MonitorWake)
    /\ SF_vars(MonitorKill)

\* one session from its creation to the end of the process: the process is told to
\* terminate by the monitor or from outside, and then lifespan tears the server
\* down while nothing else runs
TeardownNext ==
    \/ \E t \in {"h1"} : ~killed /\ CreateStart(t, 1)
    \/ \E t \in {"h1"} : ~killed /\ DeleteStart(t, 1)
    \/ ~killed /\ SubscribeStart("c1", 1)
    \/ ~killed /\ SubscribeInit("c1")
    \/ ~killed /\ GlobalStart("c2")
    \/ \E c \in Conns : ~killed /\ Disconnect(c)
    \/ ~killed /\ Tick
    \/ ~killed /\ SweepWake
    \/ ~killed /\ SweepNext
    \/ ~killed /\ MonitorWake
    \/ MonitorKill
    \/ \E t \in Tasks : ~killed /\ LifeStep(t)
    \/ Sigterm
    \/ TeardownSweep
    \/ TeardownMonitor
    \/ TeardownSessions
    \/ TeardownGlobals

TeardownSpec == Init /\ [][TeardownNext]_vars

\* the event loop runs every coroutine that is ready, and the sweep's timer fires
\* again and again
FairLifeSpec ==
    /\ Init
    /\ [][LifeNext]_vars
    /\ SF_vars(~killed /\ SweepWake)
    /\ SF_vars(~killed /\ SweepNext)
    /\ \A t \in Tasks : SF_vars(~killed /\ LifeStep(t))

\* the steps of init and of a position update
PushStep(t) ==
    \/ TracksStep(t)
    \/ ResyncBegin(t)
    \/ ResyncStep(t)
    \/ SessionsListBegin(t)
    \/ DeltaStep(t)
    \/ Return(t)

\* the init request of the runs with a viewer that stops reading
SlowRequests == {<<[name |-> "a", raw |-> FullRaw]>>}

\* one session with two viewers, the first of which may stop reading for good,
\* under position updates
SlowNext ==
    \/ Settled /\ CreateStart("h1", 1)
    \/ \E c \in Conns : Settled /\ SubscribeStart(c, 1)
    \/ \E c \in Conns : SubscribeInit(c)
    \/ \E req \in SlowRequests : Settled /\ InitStart("h1", 1, req)
    \/ \E t \in Http, ms \in Times : TimeStart(t, 1, ms)
    \/ Stall("c1")
    \/ \E t \in Tasks : PushStep(t)

\* the event loop runs every coroutine that is ready
SlowSpec ==
    /\ Init
    /\ [][SlowNext]_vars
    /\ \A t \in Tasks : SF_vars(PushStep(t))

(***************************************************************************)
(* The pure functions, called on their own: the timeline index and the     *)
(* delta engine over every sorted entry list and every position and index. *)
(***************************************************************************)
\* the entry lists a parsed track can be, and the empty list
EntryLists == {ParseSrt(raw).entries : raw \in GoodRaws} \cup {<<>>}

\* playback positions: up to and past the last start time
Positions == 0..(MaxStart + 1)

\* the arguments of the calls: an entry list, a position, two indices within the list
CallInputs ==
    {[NoCall EXCEPT !.fn = "input", !.entries = E, !.time_ms = p,
                    !.old_index = ab[1], !.new_index = ab[2]] :
        E \in EntryLists, p \in Positions, ab \in (0..MaxLen) \X (0..MaxLen)}

PureInit ==
    /\ Startup
    /\ recording = FALSE
    /\ ws_max_clients = WS_MAX_CLIENTS
    /\ calc \in {c \in CallInputs : c.old_index <= Len(c.entries) /\ c.new_index <= Len(c.entries)}

\* find_subtitle_index(entries, time_ms)
CallFind ==
    /\ calc.fn # "none"
    /\ calc' = [calc EXCEPT !.fn = "find",
                            !.index = find_subtitle_index(calc.entries, calc.time_ms)]
    /\ UNCHANGED <<sessions, sess, nextId, global_clients, last_session_closed,
                   shutdown_event, killed, now, conn, task, emptied_at, recording,
                   ws_max_clients>>

\* calculate_subtitle_delta(old_index, new_index, entries)
CallDelta ==
    /\ calc.fn # "none"
    /\ calc' = [calc EXCEPT !.fn = "delta",
                            !.delta = calculate_subtitle_delta(calc.old_index, calc.new_index,
                                                               calc.entries)]
    /\ UNCHANGED <<sessions, sess, nextId, global_clients, last_session_closed,
                   shutdown_event, killed, now, conn, task, emptied_at, recording,
                   ws_max_clients>>

\* forward and back again: the delta for (old, new) applied to the list that shows
\* entries[0:old], then the delta for (new, old) applied to the result
CallRoundTrip ==
    /\ calc.fn # "none"
    /\ calc.old_index <= calc.new_index
    /\ calc' = [calc EXCEPT
            !.fn = "round_trip",
            !.delta = calculate_subtitle_delta(calc.old_index, calc.new_index, calc.entries),
            !.shown = ApplyDelta(
                        ApplyDelta([i \in 1..calc.old_index |-> Line(calc.entries[i])],
                                   calculate_subtitle_delta(calc.old_index, calc.new_index,
                                                            calc.entries)),
                        calculate_subtitle_delta(calc.new_index, calc.old_index,
                                                 calc.entries))]
    /\ UNCHANGED <<sessions, sess, nextId, global_clients, last_session_closed,
                   shutdown_event, killed, now, conn, task, emptied_at, recording,
                   ws_max_clients>>

\* files of up to MaxLen blocks in any order, blocks that parse_srt skips among them
AnyRaws ==
    SeqsUpTo([start_ms : 0..MaxStart, end_ms : 0..(MaxStart + 1), text : {"", "x", "y"}],
             MaxLen)

ParseInit ==
    /\ Startup
    /\ recording = FALSE
    /\ ws_max_clients = WS_MAX_CLIENTS
    /\ calc \in {[NoCall EXCEPT !.fn = "input", !.raw = raw, !.time_ms = p] :
                    raw \in AnyRaws, p \in Positions}

\* parse_srt(content): the entries, or SRTParseError
CallParse ==
    /\ calc.fn = "input"
    /\ calc' = [calc EXCEPT !.fn = "parse",
                            !.ok = ParseSrt(calc.raw).ok,
                            !.entries = ParseSrt(calc.raw).entries]
    /\ UNCHANGED <<sessions, sess, nextId, global_clients, last_session_closed,
                   shutdown_event, killed, now, conn, task, emptied_at, recording,
                   ws_max_clients>>

\* filter_entries_up_to and find_subtitle_index on the entries parse_srt returned
CallFilter ==
    /\ calc.fn = "parse"
    /\ calc.ok
    /\ calc' = [calc EXCEPT !.fn = "filter",
                            !.filtered = filter_entries_up_to(calc.entries, calc.time_ms),
                            !.index = find_subtitle_index(calc.entries, calc.time_ms)]
    /\ UNCHANGED <<sessions, sess, nextId, global_clients, last_session_closed,
                   shutdown_event, killed, now, conn, task, emptied_at, recording,
                   ws_max_clients>>

ParseNext == CallParse \/ CallFilter

ParseSpec == ParseInit /\ [][ParseNext]_vars

PureNext == CallFind \/ CallDelta \/ CallRoundTrip

PureSpec == PureInit /\ [][PureNext]_vars

(***************************************************************************)
(* Properties of the session cursor.                                       *)
(***************************************************************************)
\* the number of entries of the current track that start at or before the position
VisibleCount(session) ==
    IF session.current_track \in TrackKeys(session.tracks)
    THEN LET entries == TrackEntries(session.tracks, session.current_track)
         IN  Cardinality({i \in 1..Len(entries) : entries[i].start_ms <= session.current_time_ms})
    ELSE 0

\* C1: after init, updatePosition and selectTrack have changed a session (and so in
\* every state, as nothing else writes the cursor), current_index is the number of
\* entries of the current track with start_ms <= current_time_ms, and 0 when the
\* session has no current track
CursorInvariant ==
    \A s \in SessionIds : sess[s].current_index = VisibleCount(sess[s])

\* entries[0:current_index] of the session's current track, as a viewer shows it
VisiblePrefix(session) ==
    IF session.current_track \in TrackKeys(session.tracks)
    THEN LET entries == TrackEntries(session.tracks, session.current_track)
             n == IF session.current_index < Len(entries) THEN session.current_index
                  ELSE Len(entries)
         IN  [i \in 1..n |-> [text |-> entries[i].text, start_ms |-> entries[i].start_ms]]
    ELSE <<>>

\* C2: with the operations of a session run one after the other and no send failing,
\* whenever no operation is in progress the list every subscriber has built from
\* its messages is entries[0:current_index] of the session's current track
SerialViewerPrefix ==
    Settled =>
        \A s \in sessions : \A c \in sess[s].connected_clients :
            conn[c].shown = VisiblePrefix(sess[s])

\* two subscribers that show a proper, non-empty prefix of the second track of a
\* session, after the operations that led there
ViewersShowPrefix ==
    /\ Settled
    /\ \E s \in sessions :
            /\ sess[s].connected_clients = Conns
            /\ Len(sess[s].tracks) = 2
            /\ sess[s].current_track = sess[s].tracks[2].name
            /\ sess[s].current_index > 0
            /\ sess[s].current_index < Len(sess[s].tracks[2].entries)
            /\ \A c \in Conns : Len(conn[c].shown) = sess[s].current_index

\* C3: with position updates, track selections and inits of a session overlapping,
\* once every operation is over and its messages are delivered, each subscriber's
\* list is entries[0:current_index] of the session's current track
OverlapViewerPrefix ==
    \A c \in Conns :
        (Settled /\ conn[c].st = "open" /\ conn[c].role = "session") =>
            conn[c].shown = VisiblePrefix(sess[conn[c].sid])

(***************************************************************************)
(* Properties of deletion.                                                 *)
(***************************************************************************)
\* C6: when DELETE /session/{id} of an existing session is about to return, every
\* connection that was subscribed when it began has been closed by the server, the
\* id is out of the map, and no global subscriber shows a list with the id
DeleteClosesSubscribers ==
    \A t \in Http :
        (task[t].pc = "ret" /\ task[t].op = "delete" /\ task[t].res = "ok") =>
            /\ \A c \in task[t].subscribers : conn[c].st = "closed"
            /\ task[t].sid \notin sessions
            /\ \A g \in global_clients : task[t].sid \notin conn[g].slist

\* C7: a DELETE of an id that is not in the map returns at once without an error, and
\* leaves the map, the sessions with their subscriber sets, the global subscriber
\* set, last_session_closed and every connection as they were
DeleteAbsentNoOp ==
    [][\A t \in Http :
          (task[t].pc = "idle" /\ task'[t].op = "delete" /\ task'[t].sid \notin sessions) =>
              /\ task'[t].pc = "ret"
              /\ task'[t].res = "ok"
              /\ UNCHANGED <<sessions, sess, global_clients, last_session_closed, conn>>]_vars

\* a DELETE of an id that was never handed out is about to return
DeleteAbsentReturns ==
    \E t \in Http :
        /\ task[t].op = "delete"
        /\ task[t].pc = "ret"
        /\ task[t].res = "ok"
        /\ task[t].sid >= nextId
        /\ task[t].subscribers = {}

\* C4: the monitor initiates shutdown only when the session map is empty and has
\* been empty for at least INACTIVITY_SHUTDOWN_SECONDS
ShutdownOnlyAfterIdle ==
    [][(~shutdown_event /\ shutdown_event') =>
          (sessions = {} /\ now - emptied_at >= INACTIVITY_SHUTDOWN_SECONDS)]_vars

\* C5: while the process lives, a session that is stale is eventually out of the map
StaleIsEvicted ==
    \A s \in SessionIds :
        (s \in sessions /\ now - sess[s].last_activity > SESSION_TIMEOUT_SECONDS)
            ~> (s \notin sessions \/ killed)

(***************************************************************************)
(* Properties of the broadcast loops.                                      *)
(***************************************************************************)
\* C8: in every broadcast a send is called on each connection of the snapshot,
\* whatever the sends before it did: the connections tried and those still to be
\* served make up the snapshot, a loop is left only with nothing to be served, and
\* no coroutine ends with the error of a send
BroadcastIsolation ==
    \A t \in Tasks :
        /\ task[t].tried \cup task[t].todo = task[t].snap
        /\ task[t].tried \cap task[t].todo = {}
        /\ task[t].failed \subseteq task[t].tried
        /\ task[t].pc \notin LoopLabels => task[t].todo = {}
        /\ task[t].res # "raised"

\* a broadcast in which a send raised and the send to a connection served after it
\* went through
SendAfterFailure ==
    \E t \in Tasks :
        /\ task[t].pc \in LoopLabels
        /\ task[t].failed # {}
        /\ task[t].cur \in task[t].tried \ task[t].failed
        /\ conn[task[t].cur].st = "open"

\* C10: the delta of a position update reaches every subscriber that keeps reading:
\* a connection the delta broadcast has still to serve is eventually served, unless
\* it stops reading itself
DeltaReachesResponsive ==
    \A t \in Http : \A c \in Conns :
        (task[t].pc = "delta" /\ c \in task[t].todo)
            ~> (c \notin task[t].todo \/ conn[c].st # "open")

\* the coroutine t has just completed a push to the subscribers of its session: the
\* delta broadcast, the track-list broadcast, or the re-sync push of init or of
\* selectTrack
PushDone(t) ==
    \/ task[t].op = "time" /\ task[t].pc = "ret" /\ task[t].snap # {}
    \/ task[t].op = "init" /\ task[t].pc \in {"resync_begin", "slist_begin"}
    \/ task[t].op = "select" /\ task[t].pc = "ret" /\ task[t].res = "ok"

\* C9: when a push to a session's subscribers has completed, no connection whose
\* send raised during the push is in the subscriber set
FailedArePruned ==
    \A t \in Tasks :
        PushDone(t) => task[t].failed \cap sess[task[t].sid].connected_clients = {}

\* the lines of the first n entries of a track, as a subtitles_init carries them
PrefixLines(entries, n) ==
    [i \in 1..n |-> [text |-> entries[i].text, start_ms |-> entries[i].start_ms]]

\* C11: a valid track selection always triggers a full resync and never a delta:
\* when selectTrack(name) with name among the session's tracks has finished,
\* current_track is name, current_index is the number of entries of that track that
\* start at or before the current position, and every subscriber was sent exactly
\* one message, a subtitles_init with that many first entries of the new track (no
\* subtitle_add, no subtitle_remove), also when the old and the new count are equal
SelectResyncs ==
    \A c \in Conns :
        (task[c].op = "select" /\ task[c].pc = "ret" /\ task[c].res = "ok") =>
            LET session == sess[task[c].sid]
                entries == TrackEntries(session.tracks, task[c].track)
                count == Cardinality({i \in 1..Len(entries) :
                                        entries[i].start_ms <= session.current_time_ms})
            IN  /\ task[c].track \in TrackKeys(session.tracks)
                /\ session.current_track = task[c].track
                /\ session.current_index = count
                /\ \A d \in Conns :
                        IF d \in session.connected_clients
                        THEN /\ Len(task[c].out[d]) = 1
                             /\ task[c].out[d][1].type = "subtitles_init"
                             /\ task[c].out[d][1].lines = PrefixLines(entries, count)
                        ELSE task[c].out[d] = <<>>

\* a selection of the second track of a session with two subscribers has finished,
\* and the count it found is the count the session had before, and not zero
SelectSameCount ==
    \E c \in Conns :
        /\ task[c].op = "select" /\ task[c].pc = "ret" /\ task[c].res = "ok"
        /\ sess[task[c].sid].connected_clients = Conns
        /\ Len(sess[task[c].sid].tracks) = 2
        /\ task[c].track = sess[task[c].sid].tracks[2].name
        /\ task[c].old_index = sess[task[c].sid].current_index
        /\ task[c].old_index > 0

\* C12: selectTrack with a name that is not a key of the session's tracks is
\* ignored: the step that handles it leaves every session as it was (current_track,
\* current_time_ms, current_index, last_activity, the subscriber set), delivers
\* nothing to any connection, and takes the handler straight to its end with no
\* send called
SelectMissingIgnored ==
    [][\A c \in Conns :
          (/\ task[c].pc = "recv"
           /\ task'[c].op = "select"
           /\ task'[c].track \notin TrackKeys(sess[conn[c].sid].tracks))
          => /\ sess' = sess
             /\ sessions' = sessions
             /\ conn' = conn
             /\ task'[c].pc = "ret"
             /\ \A d \in Conns : task'[c].out[d] = <<>>
             /\ \A u \in Tasks \ {c} : task'[u] = task[u]]_vars

\* a selectTrack naming no track of a session that has a track, a cursor past
\* zero and two subscribers has been handled
SelectMissingHandled ==
    \E c \in Conns :
        /\ task[c].op = "select" /\ task[c].pc = "ret" /\ task[c].res = "ignored"
        /\ task[c].track \notin TrackKeys(sess[task[c].sid].tracks)
        /\ sess[task[c].sid].tracks # <<>>
        /\ sess[task[c].sid].current_index > 0
        /\ sess[task[c].sid].connected_clients = Conns

\* C13: when a position update has finished, it has sent nothing to any subscriber
\* if the count it computed equals the count the session had; otherwise it has sent
\* each subscriber either one subtitle_add per newly visible entry, in ascending
\* index order (forward move), or exactly one subtitle_remove with count = old - new
\* (backward move)
UpdateSendsDelta ==
    \A t \in Http :
        (task[t].op = "time" /\ task[t].pc = "ret" /\ task[t].res = "ok") =>
            LET session == sess[task[t].sid]
                old == task[t].old_index
                new == session.current_index
                entries == TrackEntries(session.tracks, session.current_track)
            IN  \A d \in Conns :
                    IF d \notin session.connected_clients \/ new = old
                    THEN task[t].out[d] = <<>>
                    ELSE IF new > old
                    THEN /\ Len(task[t].out[d]) = new - old
                         /\ \A i \in 1..(new - old) :
                                /\ task[t].out[d][i].type = "subtitle_add"
                                /\ task[t].out[d][i].lines =
                                        <<[text |-> entries[old + i].text,
                                           start_ms |-> entries[old + i].start_ms]>>
                    ELSE /\ Len(task[t].out[d]) = 1
                         /\ task[t].out[d][1].type = "subtitle_remove"
                         /\ task[t].out[d][1].count = old - new

\* a position update that made two entries visible at once has finished, in a
\* session with two subscribers
UpdateAddedTwo ==
    \E t \in Http :
        /\ task[t].op = "time" /\ task[t].pc = "ret" /\ task[t].res = "ok"
        /\ sess[task[t].sid].connected_clients = Conns
        /\ sess[task[t].sid].current_index = task[t].old_index + 2

\* C14: for every entry list sorted by start_ms and every position p,
\* find_subtitle_index returns the number of entries with start_ms <= p, an entry
\* starting exactly at p included: 0 for the empty list and for p before the first
\* start, the length of the list for p at or after the last start
FindCountsStarted ==
    calc.fn = "find" =>
        LET E == calc.entries
            p == calc.time_ms
        IN  /\ calc.index = Cardinality({i \in 1..Len(E) : E[i].start_ms <= p})
            /\ E = <<>> => calc.index = 0
            /\ (E # <<>> /\ p < E[1].start_ms) => calc.index = 0
            /\ (E # <<>> /\ p >= E[Len(E)].start_ms) => calc.index = Len(E)

\* the index was asked at the very start time of an entry that is not the last
FindAtStart ==
    /\ calc.fn = "find"
    /\ \E i \in 1..Len(calc.entries) : calc.entries[i].start_ms = calc.time_ms
    /\ calc.index > 0
    /\ calc.index < Len(calc.entries)

\* C15: for all counts a, b within the list, calculate_subtitle_delta(a, b, E) is
\* None when a = b, AddSubtitles of exactly b - a items when a < b, the i-th being
\* the text and start_ms of E[a + i], and RemoveSubtitles with count a - b when a > b
DeltaMatchesCounts ==
    calc.fn = "delta" =>
        LET E == calc.entries
            a == calc.old_index
            b == calc.new_index
        IN  /\ a = b => calc.delta.kind = "none"
            /\ a < b => /\ calc.delta.kind = "add"
                        /\ Len(calc.delta.subs) = b - a
                        /\ \A i \in 1..(b - a) :
                                calc.delta.subs[i] = [text |-> E[a + i].text,
                                                      start_ms |-> E[a + i].start_ms]
            /\ a > b => /\ calc.delta.kind = "remove"
                        /\ calc.delta.count = a - b

\* a delta was computed for a forward move that starts past the first entry
DeltaPastFirst ==
    /\ calc.fn = "delta"
    /\ 0 < calc.old_index
    /\ calc.old_index < calc.new_index
    /\ calc.delta.kind = "add"

\* C16: delta round trip: for all a <= b within the list, the delta for (a, b)
\* applied to the displayed list E[0:a], and then the delta for (b, a) applied to
\* the result, give E[0:a] again
DeltaRoundTrip ==
    calc.fn = "round_trip" => calc.shown = PrefixLines(calc.entries, calc.old_index)

\* a round trip was made that appended and retracted an entry, on a list that
\* showed something before
RoundTripMoved ==
    /\ calc.fn = "round_trip"
    /\ 0 < calc.old_index
    /\ calc.old_index < calc.new_index
    /\ calc.delta.kind = "add"

\* the names of the files of an init request that parse, in the order of the request
ParsedNames(req) ==
    LET good == SelectSeq(req, LAMBDA item : ParseSubtitles(item.raw).ok)
    IN  [i \in 1..Len(good) |-> good[i].name]

\* C17: init on an existing session resets the cursor: when it has finished,
\* current_track is the first name of the request whose file parsed (and empty when
\* none parsed), current_time_ms = 0, current_index = 0, last_activity is the time of
\* the request, and every subscriber was sent a tracks message and then a
\* subtitles_init
InitResets ==
    \A t \in Http :
        (task[t].op = "init" /\ task[t].pc = "ret" /\ task[t].res = "ok") =>
            LET session == sess[task[t].sid]
                names == ParsedNames(task[t].req)
            IN  /\ session.current_track = IF names # <<>> THEN names[1] ELSE ""
                /\ session.current_time_ms = 0
                /\ session.current_index = 0
                /\ session.last_activity = now
                /\ \A d \in session.connected_clients :
                        /\ Len(task[t].out[d]) >= 2
                        /\ task[t].out[d][1].type = "tracks"
                        /\ task[t].out[d][2].type = "subtitles_init"

\* C18: partial parse failure in init: when an init has finished, a track of the
\* request whose text failed to parse is absent from the session's tracks, every
\* track that parsed is present with its entries, the session has no track that is
\* not of this request (the previous tracks are all replaced), and the response is
\* success
InitKeepsParsed ==
    \A t \in Http :
        (task[t].op = "init" /\ task[t].pc = "ret" /\ task[t].sid \in sessions) =>
            LET tracks == sess[task[t].sid].tracks
                req == task[t].req
            IN  /\ task[t].res = "ok"
                /\ \A i \in 1..Len(req) :
                        IF ParseSubtitles(req[i].raw).ok
                        THEN /\ req[i].name \in TrackKeys(tracks)
                             /\ TrackEntries(tracks, req[i].name) =
                                    ParseSubtitles(req[i].raw).entries
                        ELSE req[i].name \notin TrackKeys(tracks)
                /\ TrackKeys(tracks) \subseteq {req[i].name : i \in 1..Len(req)}
                /\ Len(tracks) = Cardinality(TrackKeys(tracks))

\* an init whose first file failed to parse and whose second file parsed has
\* finished, in a session with two subscribers
InitPartlyParsed ==
    \E t \in Http :
        /\ task[t].op = "init" /\ task[t].pc = "ret" /\ task[t].res = "ok"
        /\ Len(task[t].req) = 2
        /\ ~ParseSubtitles(task[t].req[1].raw).ok
        /\ ParseSubtitles(task[t].req[2].raw).ok
        /\ sess[task[t].sid].connected_clients = Conns

\* C19: a session with zero successfully parsed tracks accepts position updates
\* without error, keeps current_index = 0, and is never sent subtitle content: no
\* operation on it has sent a subtitle_add, a subtitle_remove or a subtitles_init
\* with lines, and between operations its subscribers show nothing
NoTracksNoContent ==
    \A s \in sessions :
        sess[s].tracks = <<>> =>
            /\ sess[s].current_index = 0
            /\ \A t \in Tasks :
                    (task[t].sid = s /\ task[t].op \in {"time", "init", "select", "subscribe"}) =>
                        /\ (task[t].op = "time" /\ task[t].pc = "ret") => task[t].res = "ok"
                        /\ \A d \in Conns : \A i \in 1..Len(task[t].out[d]) :
                                /\ task[t].out[d][i].type \notin {"subtitle_add", "subtitle_remove"}
                                /\ task[t].out[d][i].type = "subtitles_init" =>
                                        task[t].out[d][i].lines = <<>>
            /\ Settled => \A c \in sess[s].connected_clients : conn[c].shown = <<>>

\* a position update past zero has finished on a session with two subscribers that
\* had a track once and has none since its last init
UpdateWithoutTracks ==
    \E t \in Http :
        /\ task[t].op = "time" /\ task[t].pc = "ret" /\ task[t].res = "ok"
        /\ sess[task[t].sid].tracks = <<>>
        /\ sess[task[t].sid].current_track # ""
        /\ sess[task[t].sid].current_time_ms > 0
        /\ sess[task[t].sid].connected_clients = Conns

\* C20: subscribe ordering: a connection newly added to a session's subscriber set
\* is sent the tracks message and then subtitles_init before it is sent any
\* subtitle_add or subtitle_remove, also when a position update of that session
\* runs while the subscribe is still sending its initial messages: no connection has
\* received a delta before its first subtitles_init
SubscribeOrdered ==
    \A c \in Conns : conn[c].phase # "early"

\* C21: capacity rejection: a connection attempt made when the session subscribers
\* and the global subscribers together number WS_MAX_CLIENTS or more is closed and
\* added to no subscriber set, and every existing subscriber set is unchanged
CapacityRejects ==
    [][\A c \in Conns :
          (/\ conn[c].st = "new"
           /\ conn'[c].st # "new"
           /\ SumClients(sessions) + Cardinality(global_clients) >= ws_max_clients)
          => /\ conn'[c].st = "closed"
             /\ global_clients' = global_clients
             /\ \A s \in SessionIds :
                    sess'[s].connected_clients = sess[s].connected_clients]_vars

\* C22: shutdown sequencing: teardown does not end with an error, also when a
\* background task had already ended on its own; it has closed no subscriber
\* connection before the sweep and the monitor are both cancelled or finished, no
\* global subscriber connection before every session's subscriber set is closed and
\* cleared, and when it completes every session subscriber set and the global
\* subscriber set are empty
ShutdownSequenced ==
    LET tr == task[Lifespan]
    IN  /\ tr.pc # "failed"
        /\ (tr.tried \cup tr.snap # {}) =>
                /\ task[Sweep].pc = "cancelled"
                /\ task[Monitor].pc \in {"cancelled", "ended"}
        /\ tr.snap # {} => \A s \in sessions : sess[s].connected_clients = {}
        /\ tr.pc = "td_done" =>
                /\ global_clients = {}
                /\ \A s \in sessions : sess[s].connected_clients = {}

\* C23: once the session map has been empty for longer than
\* INACTIVITY_SHUTDOWN_SECONDS, then, unless a session is created, the monitor
\* eventually sets the shutdown flag and requests termination; and once it has
\* requested termination it has returned, so it requests it only once
ShutdownWhenIdle ==
    /\ (sessions = {} /\ now - emptied_at > INACTIVITY_SHUTDOWN_SECONDS)
           ~> (sessions # {} \/ (shutdown_event /\ killed))
    /\ [](killed => task[Monitor].pc = "ended")

\* the monitor has ended the process after a session was created and removed
IdleShutDown ==
    /\ killed
    /\ shutdown_event
    /\ nextId > 1
    /\ sessions = {}
    /\ now - emptied_at > INACTIVITY_SHUTDOWN_SECONDS

\* C24: a create step adds exactly one session, under an identifier that was not in
\* the session map, with no tracks, no current track, position and visible count 0
\* and no subscriber, and leaves every other session as it was; its
\* broadcast starts before anything else runs and goes to the global subscribers of
\* that moment; and a create that has completed has sent each of them a
\* sessions_list that contains the new identifier
CreateAddsOne ==
    /\ [][\A t \in Http :
            (task[t].pc = "idle" /\ task'[t].pc # "idle" /\ task'[t].op = "create") =>
                LET id == task'[t].sid
                IN  /\ id \notin sessions
                    /\ sessions' = sessions \cup {id}
                    /\ sess'[id].tracks = <<>>
                    /\ sess'[id].current_track = ""
                    /\ sess'[id].current_time_ms = 0
                    /\ sess'[id].current_index = 0
                    /\ sess'[id].connected_clients = {}
                    /\ \A s \in SessionIds \ {id} : sess'[s] = sess[s]
                    /\ global_clients' = global_clients
                    /\ task'[t].run]_vars
    /\ [][\A t \in Http :
            (task[t].op = "create" /\ task[t].pc = "slist_begin"
                                  /\ task'[t].pc # "slist_begin") =>
                task'[t].snap = global_clients]_vars
    /\ [](\A t \in Http :
            (task[t].op = "create" /\ task[t].pc = "ret") =>
                \A c \in task[t].snap :
                    \E i \in 1..Len(task[t].out[c]) :
                        /\ task[t].out[c][i].type = "sessions_list"
                        /\ task[t].sid \in task[t].out[c][i].ids)

\* a second session has been created while the first had been moved, and two
\* session pickers have been told
CreatedSecond ==
    \E t \in Http :
        /\ task[t].op = "create"
        /\ task[t].pc = "ret"
        /\ task[t].sid = 2
        /\ task[t].snap = Conns
        /\ 1 \in sessions
        /\ sess[1].current_time_ms > 0

\* C25: cross-session independence: a step of init, updatePosition or selectTrack on
\* one session leaves every other session (tracks, current track, position, visible
\* count, last_activity, subscriber set) and every connection subscribed to another
\* session as they were, and such an operation sends nothing to a subscriber of
\* another session, whatever runs at the same time
CrossIndependent ==
    /\ [][\A t \in Tasks, B \in SessionIds :
            (/\ task'[t] # task[t]
             /\ task'[t].op \in {"init", "time", "select"}
             /\ task'[t].sid # B) =>
                /\ sess'[B] = sess[B]
                /\ \A c \in Conns :
                       (conn[c].role = "session" /\ conn[c].sid = B) => conn'[c] = conn[c]]_vars
    /\ [](\A t \in Tasks, c \in Conns :
            (/\ task[t].op \in {"init", "time", "select"}
             /\ conn[c].role = "session"
             /\ conn[c].sid # task[t].sid) => task[t].out[c] = <<>>)

\* an init of session 1 and a position update of session 2 are both in the middle of
\* their pushes, each session having a viewer that shows lines
CrossBusy ==
    /\ task["h1"].op = "init"
    /\ task["h1"].pc \notin {"idle", "ret"}
    /\ task["h2"].op = "time"
    /\ task["h2"].pc = "delta"
    /\ conn["c1"].sid = 1
    /\ conn["c2"].sid = 2
    /\ conn["c2"].shown # <<>>

ParseValid ==
    calc.fn = "parse" =>
        LET E == calc.entries
        IN  /\ calc.ok = (\E i \in 1..Len(calc.raw) :
                            /\ calc.raw[i].start_ms < calc.raw[i].end_ms
                            /\ calc.raw[i].text # "")
            /\ ~calc.ok => E = <<>>
            /\ \A i, j \in 1..Len(E) : i < j => E[i].start_ms <= E[j].start_ms
            /\ \A i \in 1..Len(E) : E[i].start_ms < E[i].end_ms /\ E[i].text # ""
            /\ \A t \in 0..MaxStart :
                   SelectSeq(E, LAMBDA e : e.start_ms = t) =
                   SelectSeq(calc.raw, LAMBDA b :
                       b.start_ms = t /\ b.start_ms < b.end_ms /\ b.text # "")

\* a file was parsed whose blocks were all valid and out of order
ParsedUnordered ==
    /\ calc.fn = "parse"
    /\ Len(calc.raw) = MaxLen
    /\ Len(calc.entries) = MaxLen
    /\ calc.raw[1].start_ms > calc.raw[MaxLen].start_ms

\* C28: for every entry list E that parse_srt returns (sorted by start_ms) and every
\* position p, find_subtitle_index(E, p) is the length of filter_entries_up_to(E, p)
\* and the first find_subtitle_index(E, p) entries of E are that list
IndexAgreesWithFilter ==
    calc.fn = "filter" =>
        /\ calc.index = Len(calc.filtered)
        /\ calc.index <= Len(calc.entries)
        /\ SubSeq(calc.entries, 1, calc.index) = calc.filtered

\* the position was the start time of an entry and before the start of another
FilteredAtStart ==
    /\ calc.fn = "filter"
    /\ calc.index > 0
    /\ calc.index < Len(calc.entries)
    /\ calc.entries[calc.index].start_ms = calc.time_ms

\* C29: overlapping deletions of the same session complete without error: no delete
\* request ends with an error and the stale sweep does not end, also when one
\* close_session of a session with subscribers starts before another has removed it
OverlappingDeletesComplete ==
    /\ task[Sweep].pc # "crashed"
    /\ \A t \in Http : task[t].res # "KeyError"

\* C30: every updatePosition on an existing session sets last_activity to the
\* current time, whether or not the visible count changes and whether or not the
\* session has a current track; no step of a connection (subscribe, selectTrack,
\* unsubscribe) changes the last_activity of any session
ActivityOnUpdateOnly ==
    [][/\ \A t \in Http :
             (/\ task[t].pc = "idle"
              /\ task'[t].op = "time"
              /\ task'[t].sid \in sessions) =>
                 sess'[task'[t].sid].last_activity = now
       /\ (\E c \in Conns : task'[c] # task[c] \/ conn'[c] # conn[c]) =>
             \A s \in SessionIds : sess'[s].last_activity = sess[s].last_activity
      ]_vars

\* a position update that changed no visible count, on a session without a current
\* track that was last active earlier, has refreshed last_activity
ActivityRefreshed ==
    /\ task["h1"].op = "time"
    /\ task["h1"].pc = "ret"
    /\ now > 0
    /\ sess[1].current_track = ""
    /\ sess[1].current_index = 0
    /\ sess[1].connected_clients # {}
    /\ sess[1].last_activity = now

\* C31: the stale sweep removes only sessions that are stale when they are removed:
\* at every step in which the sweep takes a session out of the map, now minus that
\* session's last_activity exceeds SESSION_TIMEOUT_SECONDS, also when a position
\* update arrived between the sweep's scan and the removal
SweepRemovesOnlyStale ==
    [][\A s \in SessionIds :
          (/\ s \in sessions
           /\ s \notin sessions'
           /\ task[Sweep].pc = "close_del"
           /\ task'[Sweep] # task[Sweep]) =>
              now - sess[s].last_activity > SESSION_TIMEOUT_SECONDS]_vars

\* C32: no subscriber is left behind by a deletion: when a DELETE has completed and
\* its session is out of the map, no open connection is in the subscriber set of
\* the removed session, also when a connection subscribed while the deletion was
\* notifying the earlier subscribers
DeleteLeavesNoSubscriber ==
    \A t \in Http :
        (/\ task[t].pc = "ret"
         /\ task[t].op = "delete"
         /\ task[t].res = "ok"
         /\ task[t].sid \notin sessions) =>
            \A c \in sess[task[t].sid].connected_clients : conn[c].st # "open"

\* C33: in every reachable state the subscribed connections, those of all session
\* subscriber sets and those of the global set together, number at most the limit
\* the server runs with
TotalWithinLimit ==
    SumClients(sessions) + Cardinality(global_clients) <= ws_max_clients

\* C34: in every reachable state the current_track of a session is empty or a key
\* of that session's tracks, also after a second init in which no track parses
CurrentTrackIsKey ==
    \A s \in sessions :
        \/ sess[s].current_track = ""
        \/ sess[s].current_track \in TrackKeys(sess[s].tracks)

\* C35: in every reachable state the current_index of a session is between 0 and
\* the number of entries of its current track, and is 0 whenever current_track is
\* not a key of its tracks
IndexWithinTrack ==
    \A s \in sessions :
        /\ sess[s].current_index >= 0
        /\ IF sess[s].current_track \in TrackKeys(sess[s].tracks)
           THEN sess[s].current_index <=
                    Len(TrackEntries(sess[s].tracks, sess[s].current_track))
           ELSE sess[s].current_index = 0

\* a viewer has switched from a track of which MaxLen entries were visible to a
\* shorter one, all of whose entries are now visible
SwitchedToShorter ==
    \E c \in Conns :
        /\ task[c].op = "select"
        /\ task[c].pc = "ret"
        /\ task[c].res = "ok"
        /\ task[c].old_index = MaxLen
        /\ LET session == sess[task[c].sid]
           IN  /\ session.current_track \in TrackKeys(session.tracks)
               /\ session.current_index > 0
               /\ session.current_index < MaxLen
               /\ session.current_index =
                      Len(TrackEntries(session.tracks, session.current_track))

\* C36: session-list convergence: when no operation is in progress, the ids of the
\* last sessions_list received by every global subscriber whose connection is open
\* are the ids of the session map, also after two session-list broadcasts have
\* overlapped
SessionsListConverges ==
    Settled =>
        \A g \in global_clients : conn[g].st = "open" => conn[g].slist = sessions

=============================================================================
